---- MODULE Spec2Model ----
(***************************************************************************)
(* Model of the two cron reconcilers of codex-docker:                      *)
(*   scripts/cron/github-issue-spec-codex-cron.mjs  (issue job)            *)
(*   scripts/cron/github-pr-review-codex-cron.mjs   (PR job)               *)
(* One deployment runs one of the two jobs (docker/entrypoint.sh execs the *)
(* configured CODEX_CRON_COMMAND); the repository event feed, the search   *)
(* results and the agent's exit codes are the environment.                 *)
(***************************************************************************)
EXTENDS Integers, Sequences, FiniteSets, TLC

\* ---------------------------------------------------------------- bounds
\* Number of events the repository publishes in a behaviour.
MaxEvents == 3
\* Length of the fetched feed window (the code asks for per_page=100).
MaxWindow == 3

\* Issue numbers and pull-request numbers of the modelled repository.
Issues == {1, 2}

PRs == {1, 2}

\* ------------------------------------------------------------ sequences
Reverse(s) == [i \in 1..Len(s) |-> s[Len(s) + 1 - i]]

Take(s, n) == IF Len(s) <= n THEN s ELSE SubSeq(s, 1, n)

Range(s) == {s[i] : i \in 1..Len(s)}

\* --------------------------------------------------------------- events
\* Payloads the repository feed can carry.  `labeled` is the outcome of
\* hasModuleSpecLabel on the event's issue snapshot and `checked` the outcome
\* of checkboxChecked on its body; number is payload.issue.number, issuePr is
\* payload.issue.pull_request, prNumber is payload.pull_request.number and
\* checkPr is pull_requests[0].number of payload.check_run, or of
\* payload.check_suite in a CheckSuiteEvent (0: absent); status and
\* conclusion are those of the same object, and deployState is
\* payload.deployment_status.state.
Kind(type, action, number, labeled, checked, issuePr, prNumber, checkPr, status, conclusion) ==
    [type |-> type, action |-> action, number |-> number, labeled |-> labeled,
     checked |-> checked, issuePr |-> issuePr, prNumber |-> prNumber,
     checkPr |-> checkPr, status |-> status, conclusion |-> conclusion, deployState |-> ""]

OtherKind == Kind("PushEvent", "", 0, FALSE, FALSE, FALSE, 0, 0, "", "")

IssueKinds ==
    { Kind("IssuesEvent", "labeled", 1, TRUE,  TRUE,  FALSE, 0, 0, "", ""),
      Kind("IssuesEvent", "closed",  1, TRUE,  TRUE,  FALSE, 0, 0, "", ""),
      Kind("IssuesEvent", "opened",  2, TRUE,  TRUE,  FALSE, 0, 0, "", ""),
      Kind("IssuesEvent", "edited",  2, TRUE,  FALSE, FALSE, 0, 0, "", ""),
      Kind("IssuesEvent", "opened",  2, FALSE, TRUE,  FALSE, 0, 0, "", "") }

PrKinds ==
    { Kind("CheckRunEvent", "completed", 0, FALSE, FALSE, FALSE, 0, 1, "completed", "failure"),
      Kind("CheckRunEvent", "completed", 0, FALSE, FALSE, FALSE, 0, 1, "completed", "success"),
      Kind("PullRequestReviewEvent", "created", 0, FALSE, FALSE, FALSE, 1, 0, "", ""),
      Kind("IssueCommentEvent", "created", 2, FALSE, FALSE, TRUE, 0, 0, "", "") }

\* The events that make a difference to job j; every other event fails the
\* first test of the job's event loop, as a PushEvent does.
EventKinds(j) == (IF j = "issue" THEN IssueKinds ELSE PrKinds) \cup {OtherKind}

MkEvent(id, k) ==
    [id |-> id, type |-> k.type, action |-> k.action, number |-> k.number,
     labeled |-> k.labeled, checked |-> k.checked, issuePr |-> k.issuePr,
     prNumber |-> k.prNumber, checkPr |-> k.checkPr, status |-> k.status,
     conclusion |-> k.conclusion, deployState |-> k.deployState]

VARIABLES
    feed,        \* the events the feed endpoint returns now, newest first
    published,   \* number of events published so far (ids are 1..published)
    job,         \* the configured cron command: "issue" or "pr"
    pc,          \* position of the running cycle; "idle" = no process
    state,       \* the persisted state file of the job
    lastEventId, \* local: the cursor the running cycle read (0: null)
    events,      \* local: the feed the running cycle fetched
    newOnes,     \* local: the new events of the running cycle, oldest first
    cand,        \* local: prsToEvaluate of the PR job, in insertion order
    notified,    \* local: the notified map the PR job read and updates
    out,         \* local: the summary object of the running cycle
    todo,        \* local: index of the next actionable item to hand to codex
    world,       \* what the repository looked like to the cycle's queries
    exitCode,    \* exit code of the last process (-1: none yet, or one is running)
    proc,        \* the agent subprocesses and checkout directories of the cycle
    threads,     \* one call of getCodeRabbitUnresolvedThreadCount
    hist         \* history of completed polls (not program state)

vars == <<feed, published, job, pc, state, lastEventId, events, newOnes, cand, notified, out, todo,
          world, exitCode, proc, threads, hist>>

\* ------------------------------------------------------ persisted state
\* The state file.  lastEventId = 0 stands for a missing file or a missing
\* field (readState / readJson return null); notified[n].sha = 0 stands for
\* "no record of PR n"; torn says that the bytes of the file are not a JSON
\* document (the other fields then say what the document was meant to be).
NoRecord == [sha |-> 0, latestCR |-> 0]

NoNotified == [n \in PRs |-> NoRecord]

AbsentState == [lastEventId |-> 0, reset |-> FALSE, notified |-> NoNotified, torn |-> FALSE]

\* A reader that takes what it can from a file that does not parse.
readStateSalvages(file) == [file EXCEPT !.torn = FALSE]

\* readState of the issue job: JSON.parse(readFileSync) in a try block, null
\* from the catch; the callers read null as "no cursor".
readState(file) == IF file.torn THEN AbsentState ELSE file

\* readJson(p) of the PR job, with main's "|| {}": the same.
readJson(file) == IF file.torn THEN AbsentState ELSE file

\* What the job j reads from the state file at the start of its cycle.
Load(j, file) == IF j = "issue" THEN readState(file) ELSE readJson(file)

\* writeState(state) of the issue job: the object holds the cursor, and the
\* reset mark in the gap case; the file is replaced as a whole.
writeState(lastId, reset) ==
    [lastEventId |-> lastId, reset |-> reset, notified |-> NoNotified, torn |-> FALSE]

\* The summary object before anything was collected.
EmptyOut ==
    [newestEventId |-> 0, initialized |-> FALSE, reset |-> FALSE,
     events |-> <<>>, urgent |-> <<>>, actionable |-> <<>>, ready |-> <<>>,
     codexRuns |-> <<>>]

NoWorld ==
    [prOpen |-> {}, sweepOk |-> TRUE, sweep |-> <<>>, evMiss |-> {}, swMiss |-> {},
     open |-> <<>>, answers |-> <<>>, fetched |-> FALSE, listed |-> FALSE]

\* No subprocess was spawned and no checkout directory made.  running and
\* dirs hold the positions (in out.actionable) of the items whose agent is
\* alive and whose temporary directory exists; started counts the agents
\* spawned per position; repoDir is main's local (0: null); step is the
\* position inside one iteration of the loop over the actionable items.
NoProc ==
    [running |-> {}, dirs |-> {}, started |-> <<>>, repoDir |-> 0, step |-> "top"]

\* No call of getCodeRabbitUnresolvedThreadCount is under way.
\* The repository answered the fetch of the feed and nothing else.
FetchedWorld == [NoWorld EXCEPT !.fetched = TRUE]

NoThreads == [pages |-> <<>>, i |-> 0, after |-> 0, unresolved |-> 0, returned |-> FALSE]

\* ------------------------------------------------- cursor, issue job
\* events?.[0]?.id || null
NewestEventId(evs) == IF evs = <<>> THEN 0 ELSE evs[1].id

RECURSIVE ScanNewOnes(_, _)
\* for (const ev of events) { if (id === lastId) break; newOnes.push(ev) }
ScanNewOnes(evs, lastId) ==
    IF evs = <<>> THEN <<>>
    ELSE IF Head(evs).id = lastId THEN <<>>
    ELSE <<Head(evs)>> \o ScanNewOnes(Tail(evs), lastId)

\* A cursor that, finding no stored id, hands the whole feed on as new.
IssueCursorReplaysFirstRun(lastId, evs) ==
    LET newestEventId == NewestEventId(evs)
        scanned == ScanNewOnes(evs, lastId)
    IN  IF newestEventId = 0
        THEN [status |-> "EMPTY", newOnes |-> <<>>, persist |-> FALSE,
              cursor |-> lastId, reset |-> FALSE]
        ELSE IF lastId = newestEventId
        THEN [status |-> "NO_CHANGE", newOnes |-> <<>>, persist |-> FALSE,
              cursor |-> lastId, reset |-> FALSE]
        ELSE [status |-> "OK", newOnes |-> Reverse(scanned), persist |-> TRUE,
              cursor |-> newestEventId, reset |-> FALSE]

\* A cursor that, not finding the stored id, hands the whole feed on as new.
IssueCursorGapAsNew(lastId, evs) ==
    LET newestEventId == NewestEventId(evs)
        scanned == ScanNewOnes(evs, lastId)
    IN  IF newestEventId = 0
        THEN [status |-> "EMPTY", newOnes |-> <<>>, persist |-> FALSE,
              cursor |-> lastId, reset |-> FALSE]
        ELSE IF lastId = 0
        THEN [status |-> "FIRST_RUN", newOnes |-> <<>>, persist |-> TRUE,
              cursor |-> newestEventId, reset |-> FALSE]
        ELSE IF lastId = newestEventId
        THEN [status |-> "NO_CHANGE", newOnes |-> <<>>, persist |-> FALSE,
              cursor |-> lastId, reset |-> FALSE]
        ELSE [status |-> "OK", newOnes |-> Reverse(scanned), persist |-> TRUE,
              cursor |-> newestEventId, reset |-> FALSE]

\* The cursor part of collectActionableEvents: which branch is taken, the
\* new events in processing order, and whether and what it persists.
IssueCursor(lastId, evs) ==
    LET newestEventId == NewestEventId(evs)
        scanned == ScanNewOnes(evs, lastId)
    IN  IF newestEventId = 0
        THEN [status |-> "EMPTY", newOnes |-> <<>>, persist |-> FALSE,
              cursor |-> lastId, reset |-> FALSE]
        ELSE IF lastId = 0
        THEN [status |-> "FIRST_RUN", newOnes |-> <<>>, persist |-> TRUE,
              cursor |-> newestEventId, reset |-> FALSE]
        ELSE IF lastId = newestEventId
        THEN [status |-> "NO_CHANGE", newOnes |-> <<>>, persist |-> FALSE,
              cursor |-> lastId, reset |-> FALSE]
        ELSE IF Len(scanned) = Len(evs)
        THEN [status |-> "GAP", newOnes |-> <<>>, persist |-> TRUE,
              cursor |-> newestEventId, reset |-> TRUE]
        ELSE [status |-> "OK", newOnes |-> Reverse(scanned), persist |-> TRUE,
              cursor |-> newestEventId, reset |-> FALSE]

\* ------------------------------------------------ matcher, issue job
\* The three `continue`s at the head of the event loop.
IsMatched(ev) == ev.type = "IssuesEvent" /\ ev.number # 0 /\ ev.labeled

MkItem(ev) == [id |-> ev.id, action |-> ev.action, number |-> ev.number, checked |-> ev.checked]

CanActOnClosedToo(action) ==
    action \in {"opened", "edited", "labeled", "reopened", "closed"}

CanActOnAction(action) == action \in {"opened", "edited", "labeled", "reopened"}

\* hasOpenPRForIssue inside its try/catch: a failed search counts as "no PR".
HasOpenPRForIssue(number, prOpen, failed) == IF failed THEN FALSE ELSE number \in prOpen

WithPr(item, prAlreadyOpen) ==
    [id |-> item.id, action |-> item.action, number |-> item.number,
     checked |-> item.checked, prAlreadyOpen |-> prAlreadyOpen]

RECURSIVE Matched(_)
Matched(evs) ==
    IF evs = <<>> THEN <<>>
    ELSE IF IsMatched(Head(evs)) THEN <<MkItem(Head(evs))>> \o Matched(Tail(evs))
    ELSE Matched(Tail(evs))

RECURSIVE EventActionable(_, _, _)
\* The `actionable` array built by the event loop.
EventActionable(evs, prOpen, evMiss) ==
    IF evs = <<>> THEN <<>>
    ELSE LET ev == Head(evs)
             rest == EventActionable(Tail(evs), prOpen, evMiss)
         IN  IF IsMatched(ev) /\ ev.checked /\ CanActOnAction(ev.action)
             THEN <<WithPr(MkItem(ev), HasOpenPRForIssue(ev.number, prOpen, ev.id \in evMiss))>> \o rest
             ELSE rest

\* actionableByIssue: a Map keyed by issue number, kept in insertion order.
MapHas(m, number) == \E i \in 1..Len(m) : m[i].number = number

MapSet(m, item) ==
    IF MapHas(m, item.number)
    THEN [i \in 1..Len(m) |-> IF m[i].number = item.number THEN item ELSE m[i]]
    ELSE Append(m, item)

RECURSIVE FromEventsKeepsAll(_, _)
\* The map filled without looking at prAlreadyOpen.
FromEventsKeepsAll(m, actionable) ==
    IF actionable = <<>> THEN m
    ELSE FromEventsKeepsAll(MapSet(m, Head(actionable)), Tail(actionable))

RECURSIVE FromEvents(_, _)
\* for (const item of actionable) { if (item.prAlreadyOpen) continue; set }
FromEvents(m, actionable) ==
    IF actionable = <<>> THEN m
    ELSE IF Head(actionable).prAlreadyOpen THEN FromEvents(m, Tail(actionable))
    ELSE FromEvents(MapSet(m, Head(actionable)), Tail(actionable))

\* A sweep that only fills a map the events left empty.
SweepAddsIntoEmptyMap(m, issue, prOpen, swMiss) ==
    /\ m = <<>>
    /\ issue.checked
    /\ ~HasOpenPRForIssue(issue.number, prOpen, issue.number \in swMiss)

\* A sweep that does not look whether the map already holds the issue.
SweepAddsOverEvents(m, issue, prOpen, swMiss) ==
    /\ issue.checked
    /\ ~HasOpenPRForIssue(issue.number, prOpen, issue.number \in swMiss)

\* One iteration of the sweep loop: does the swept issue enter the map?
SweepAdds(m, issue, prOpen, swMiss) ==
    /\ issue.checked
    /\ ~MapHas(m, issue.number)
    /\ ~HasOpenPRForIssue(issue.number, prOpen, issue.number \in swMiss)

SweepItem(issue) ==
    [id |-> 0 - issue.number, action |-> "sweep", number |-> issue.number,
     checked |-> issue.checked, prAlreadyOpen |-> FALSE]

RECURSIVE FromSweep(_, _, _, _)
FromSweep(m, sweep, prOpen, swMiss) ==
    IF sweep = <<>> THEN m
    ELSE IF SweepAdds(m, Head(sweep), prOpen, swMiss)
         THEN FromSweep(MapSet(m, SweepItem(Head(sweep))), Tail(sweep), prOpen, swMiss)
         ELSE FromSweep(m, Tail(sweep), prOpen, swMiss)

\* filteredActionable of collectActionableEvents for the new events evs and
\* the answers w of the repository.
\* listOpenModuleSpecIssues inside its try/catch: a failed search is [].
ListOpenModuleSpecIssues(w) == IF w.sweepOk THEN w.sweep ELSE <<>>

FilteredActionable(evs, w) ==
    FromSweep(FromEvents(<<>>, EventActionable(evs, w.prOpen, w.evMiss)),
              ListOpenModuleSpecIssues(w), w.prOpen, w.swMiss)

\* ---------------------------------------------------- cursor, PR job
RECURSIVE FindIndexFrom(_, _, _)
FindIndexFrom(evs, lastId, i) ==
    IF evs = <<>> THEN 0 - 1
    ELSE IF Head(evs).id = lastId THEN i
    ELSE FindIndexFrom(Tail(evs), lastId, i + 1)

\* events.findIndex((e) => String(e.id) === String(lastId)), 0-based.
FindIndex(evs, lastId) == FindIndexFrom(evs, lastId, 0)

\* events.slice(0, idx)
SliceTo(evs, idx) == SubSeq(evs, 1, idx)

\* A cursor that reports a gap without storing the newest id.
PrCursorGapKeeps(lastId, evs) ==
    LET newestEventId == NewestEventId(evs)
        idx == FindIndex(evs, lastId)
    IN  IF newestEventId = 0 \/ Len(evs) = 0
        THEN [status |-> "EMPTY", newOnes |-> <<>>, persist |-> FALSE,
              cursor |-> lastId, reset |-> FALSE]
        ELSE IF lastId = 0
        THEN [status |-> "FIRST_RUN", newOnes |-> <<>>, persist |-> TRUE,
              cursor |-> newestEventId, reset |-> FALSE]
        ELSE IF idx = 0 - 1
        THEN [status |-> "GAP", newOnes |-> <<>>, persist |-> FALSE,
              cursor |-> lastId, reset |-> TRUE]
        ELSE [status |-> "FOUND", newOnes |-> Reverse(SliceTo(evs, idx)), persist |-> TRUE,
              cursor |-> newestEventId, reset |-> FALSE]

\* A cursor that hands the newer events on in feed order.
PrCursorNewestFirst(lastId, evs) ==
    LET newestEventId == NewestEventId(evs)
        idx == FindIndex(evs, lastId)
    IN  IF newestEventId = 0 \/ Len(evs) = 0
        THEN [status |-> "EMPTY", newOnes |-> <<>>, persist |-> FALSE,
              cursor |-> lastId, reset |-> FALSE]
        ELSE IF lastId = 0
        THEN [status |-> "FIRST_RUN", newOnes |-> <<>>, persist |-> TRUE,
              cursor |-> newestEventId, reset |-> FALSE]
        ELSE IF idx = 0 - 1
        THEN [status |-> "GAP", newOnes |-> <<>>, persist |-> TRUE,
              cursor |-> newestEventId, reset |-> TRUE]
        ELSE [status |-> "FOUND", newOnes |-> SliceTo(evs, idx), persist |-> TRUE,
              cursor |-> newestEventId, reset |-> FALSE]

\* A cursor whose slice takes the cursor's own event along.
PrCursorInclusive(lastId, evs) ==
    LET newestEventId == NewestEventId(evs)
        idx == FindIndex(evs, lastId)
    IN  IF newestEventId = 0 \/ Len(evs) = 0
        THEN [status |-> "EMPTY", newOnes |-> <<>>, persist |-> FALSE,
              cursor |-> lastId, reset |-> FALSE]
        ELSE IF lastId = 0
        THEN [status |-> "FIRST_RUN", newOnes |-> <<>>, persist |-> TRUE,
              cursor |-> newestEventId, reset |-> FALSE]
        ELSE IF idx = 0 - 1
        THEN [status |-> "GAP", newOnes |-> <<>>, persist |-> TRUE,
              cursor |-> newestEventId, reset |-> TRUE]
        ELSE [status |-> "FOUND", newOnes |-> Reverse(SliceTo(evs, idx + 1)), persist |-> TRUE,
              cursor |-> newestEventId, reset |-> FALSE]

RECURSIVE FindLastIndexFrom(_, _, _)
\* The 0-based index of the last event with the id among the first i, or -1.
FindLastIndexFrom(evs, lastId, i) ==
    IF i = 0 THEN 0 - 1
    ELSE IF evs[i].id = lastId THEN i - 1
    ELSE FindLastIndexFrom(evs, lastId, i - 1)

\* A cursor that looks for the stored id from the old end of the feed.
PrCursorLastIndex(lastId, evs) ==
    LET newestEventId == NewestEventId(evs)
        idx == FindLastIndexFrom(evs, lastId, Len(evs))
    IN  IF newestEventId = 0 \/ Len(evs) = 0
        THEN [status |-> "EMPTY", newOnes |-> <<>>, persist |-> FALSE,
              cursor |-> lastId, reset |-> FALSE]
        ELSE IF lastId = 0
        THEN [status |-> "FIRST_RUN", newOnes |-> <<>>, persist |-> TRUE,
              cursor |-> newestEventId, reset |-> FALSE]
        ELSE IF idx = 0 - 1
        THEN [status |-> "GAP", newOnes |-> <<>>, persist |-> TRUE,
              cursor |-> newestEventId, reset |-> TRUE]
        ELSE [status |-> "FOUND", newOnes |-> Reverse(SliceTo(evs, idx)), persist |-> TRUE,
              cursor |-> newestEventId, reset |-> FALSE]

\* The cursor part of main: the branch taken, `newer`, and the first write.
PrCursor(lastId, evs) ==
    LET newestEventId == NewestEventId(evs)
        idx == FindIndex(evs, lastId)
    IN  IF newestEventId = 0 \/ Len(evs) = 0
        THEN [status |-> "EMPTY", newOnes |-> <<>>, persist |-> FALSE,
              cursor |-> lastId, reset |-> FALSE]
        ELSE IF lastId = 0
        THEN [status |-> "FIRST_RUN", newOnes |-> <<>>, persist |-> TRUE,
              cursor |-> newestEventId, reset |-> FALSE]
        ELSE IF idx = 0 - 1
        THEN [status |-> "GAP", newOnes |-> <<>>, persist |-> TRUE,
              cursor |-> newestEventId, reset |-> TRUE]
        ELSE [status |-> "FOUND", newOnes |-> Reverse(SliceTo(evs, idx)), persist |-> TRUE,
              cursor |-> newestEventId, reset |-> FALSE]

\* writeJsonAtomic(STATE_PATH, { lastEventId, notified, ts [, reset] })
\* A write of the cursor alone.
writeJsonCursorOnly(lastId, ntf, reset) ==
    [lastEventId |-> lastId, reset |-> reset, notified |-> NoNotified, torn |-> FALSE]

writeJsonAtomic(lastId, ntf, reset) ==
    [lastEventId |-> lastId, reset |-> reset, notified |-> ntf, torn |-> FALSE]

\* ------------------------------------------------ reconciler, PR job
\* 0 stands for null.
prNumFromPayload(ev) ==
    IF ev.prNumber # 0 THEN ev.prNumber
    ELSE IF ev.number # 0 /\ ev.issuePr THEN ev.number
    ELSE IF ev.checkPr # 0 THEN ev.checkPr
    ELSE 0

toUpperCase(s) ==
    CASE s = "completed" -> "COMPLETED"
      [] s = "in_progress" -> "IN_PROGRESS"
      [] s = "failure" -> "FAILURE"
      [] s = "success" -> "SUCCESS"
      [] s = "cancelled" -> "CANCELLED"
      [] s = "timed_out" -> "TIMED_OUT"
      [] s = "action_required" -> "ACTION_REQUIRED"
      [] s = "startup_failure" -> "STARTUP_FAILURE"
      [] s = "neutral" -> "NEUTRAL"
      [] s = "queued" -> "QUEUED"
      [] s = "error" -> "ERROR"
      [] s = "inactive" -> "INACTIVE"
      [] s = "pending" -> "PENDING"
      [] OTHER -> s

interestingConclusions ==
    {"FAILURE", "CANCELLED", "TIMED_OUT", "ACTION_REQUIRED", "STARTUP_FAILURE"}

\* A line for every conclusion, success too.
lineForCheckRunAnyConclusion(ev) ==
    <<[pr |-> prNumFromPayload(ev), what |-> "CHECK",
       status |-> toUpperCase(ev.status), conclusion |-> toUpperCase(ev.conclusion)]>>

\* The urgent line of a CheckRunEvent, as the sequence of the lines pushed:
\* <<>> when the function returns null.  pr = 0 prints as '?'.
lineForCheckRunEvent(ev) ==
    LET status == IF toUpperCase(ev.status) = "" THEN "STATUS" ELSE toUpperCase(ev.status)
        conclusion == toUpperCase(ev.conclusion)
        isInteresting == IF conclusion # "" THEN conclusion \in interestingConclusions
                         ELSE status # "COMPLETED"
    IN  IF ~isInteresting THEN <<>>
        ELSE <<[pr |-> prNumFromPayload(ev), what |-> "CHECK",
                status |-> status, conclusion |-> conclusion]>>

\* The urgent line of a CheckSuiteEvent.
lineForCheckSuiteEvent(ev) ==
    LET status == IF toUpperCase(ev.status) = "" THEN "STATUS" ELSE toUpperCase(ev.status)
        conclusion == toUpperCase(ev.conclusion)
        isInteresting == IF conclusion # "" THEN conclusion \in interestingConclusions
                         ELSE status # "COMPLETED"
    IN  IF ~isInteresting THEN <<>>
        ELSE <<[pr |-> prNumFromPayload(ev), what |-> "CHECK SUITE",
                status |-> status, conclusion |-> conclusion]>>

\* The urgent line of a DeploymentStatusEvent; its state is printed where
\* the check lines print their status.
lineForDeploymentStatusEvent(ev) ==
    LET state_ == toUpperCase(ev.deployState)
    IN  IF state_ \notin {"ERROR", "FAILURE", "INACTIVE"} THEN <<>>
        ELSE <<[pr |-> prNumFromPayload(ev), what |-> "DEPLOYMENT",
                status |-> state_, conclusion |-> ""]>>

RECURSIVE Urgent(_)
\* out.urgent after the loop over the new events.
Urgent(evs) ==
    IF evs = <<>> THEN <<>>
    ELSE LET ev == Head(evs)
         IN  IF ev.type = "CheckRunEvent" THEN lineForCheckRunEvent(ev) \o Urgent(Tail(evs))
             ELSE IF ev.type = "CheckSuiteEvent"
             THEN lineForCheckSuiteEvent(ev) \o Urgent(Tail(evs))
             ELSE IF ev.type = "DeploymentStatusEvent"
             THEN lineForDeploymentStatusEvent(ev) \o Urgent(Tail(evs))
             ELSE Urgent(Tail(evs))

\* Set.prototype.add on a Set kept in insertion order.
SetAdd(s, x) == IF x \in Range(s) THEN s ELSE Append(s, x)

IsReviewEvent(ev) ==
    \/ ev.type = "PullRequestReviewEvent"
    \/ ev.type = "PullRequestReviewCommentEvent"
    \/ (ev.type = "IssueCommentEvent" /\ ev.issuePr)

RECURSIVE PrsFromEventsWithChecks(_, _)
\* A loop that takes the PRs of the check events too.
PrsFromEventsWithChecks(s, evs) ==
    IF evs = <<>> THEN s
    ELSE LET ev == Head(evs)
         IN  IF prNumFromPayload(ev) # 0
             THEN PrsFromEventsWithChecks(SetAdd(s, prNumFromPayload(ev)), Tail(evs))
             ELSE PrsFromEventsWithChecks(s, Tail(evs))

RECURSIVE PrsFromEvents(_, _)
\* prsToEvaluate after the event loop; check events `continue` before it.
PrsFromEvents(s, evs) ==
    IF evs = <<>> THEN s
    ELSE LET ev == Head(evs)
         IN  IF ev.type \in {"CheckRunEvent", "CheckSuiteEvent", "DeploymentStatusEvent"}
             THEN PrsFromEvents(s, Tail(evs))
             ELSE IF IsReviewEvent(ev) /\ prNumFromPayload(ev) # 0
             THEN PrsFromEvents(SetAdd(s, prNumFromPayload(ev)), Tail(evs))
             ELSE PrsFromEvents(s, Tail(evs))

RECURSIVE AddAll(_, _)
AddAll(s, prs) == IF prs = <<>> THEN s ELSE AddAll(SetAdd(s, Head(prs)), Tail(prs))

\* prsToEvaluate with the fallback to the recently updated open PRs.
PrsToEvaluate(evs, open) ==
    LET fromEvents == PrsFromEvents(<<>>, evs)
    IN  IF Len(fromEvents) = 0 THEN AddAll(fromEvents, open) ELSE fromEvents

\* An iteration that compares the commit only with the record.
EvaluatePrShaOnly(o, ntf, prNum, a) ==
    LET same == [out |-> o, notified |-> ntf]
        item == [number |-> prNum, headSha |-> a.headSha,
                 coderabbitLast |-> a.latestCR, unresolved |-> a.unresolved]
        lastNotified == ntf[prNum]
    IN  IF a.latestCR = 0 THEN same
        ELSE IF a.headSha = 0 THEN same
        ELSE IF a.unresolved = 0 - 1 \/ a.headCommitIso = 0 THEN same
        ELSE IF a.unresolved > 0
        THEN [out |-> [o EXCEPT !.actionable = Append(@, item)], notified |-> ntf]
        ELSE IF a.headCommitIso > a.latestCR
                /\ ~(lastNotified.sha = a.headSha)
        THEN [out |-> [o EXCEPT !.ready = Append(@, [number |-> prNum, headSha |-> a.headSha,
                                                     coderabbitLast |-> a.latestCR])],
              notified |-> [ntf EXCEPT ![prNum] = [sha |-> a.headSha, latestCR |-> a.latestCR]]]
        ELSE same

\* An iteration that takes a head commit as old as the bot activity too.
EvaluatePrNotOlder(o, ntf, prNum, a) ==
    LET same == [out |-> o, notified |-> ntf]
        item == [number |-> prNum, headSha |-> a.headSha,
                 coderabbitLast |-> a.latestCR, unresolved |-> a.unresolved]
        lastNotified == ntf[prNum]
    IN  IF a.latestCR = 0 THEN same
        ELSE IF a.headSha = 0 THEN same
        ELSE IF a.unresolved = 0 - 1 \/ a.headCommitIso = 0 THEN same
        ELSE IF a.unresolved > 0
        THEN [out |-> [o EXCEPT !.actionable = Append(@, item)], notified |-> ntf]
        ELSE IF a.headCommitIso >= a.latestCR
                /\ ~(lastNotified.sha = a.headSha /\ lastNotified.latestCR = a.latestCR)
        THEN [out |-> [o EXCEPT !.ready = Append(@, [number |-> prNum, headSha |-> a.headSha,
                                                     coderabbitLast |-> a.latestCR])],
              notified |-> [ntf EXCEPT ![prNum] = [sha |-> a.headSha, latestCR |-> a.latestCR]]]
        ELSE same

\* An iteration that takes any thread count for unresolved threads.
EvaluatePrAnyCount(o, ntf, prNum, a) ==
    LET same == [out |-> o, notified |-> ntf]
        item == [number |-> prNum, headSha |-> a.headSha,
                 coderabbitLast |-> a.latestCR, unresolved |-> a.unresolved]
        lastNotified == ntf[prNum]
    IN  IF a.latestCR = 0 THEN same
        ELSE IF a.headSha = 0 THEN same
        ELSE IF a.unresolved = 0 - 1 \/ a.headCommitIso = 0 THEN same
        ELSE IF a.unresolved >= 0
        THEN [out |-> [o EXCEPT !.actionable = Append(@, item)], notified |-> ntf]
        ELSE IF a.headCommitIso > a.latestCR
                /\ ~(lastNotified.sha = a.headSha /\ lastNotified.latestCR = a.latestCR)
        THEN [out |-> [o EXCEPT !.ready = Append(@, [number |-> prNum, headSha |-> a.headSha,
                                                     coderabbitLast |-> a.latestCR])],
              notified |-> [ntf EXCEPT ![prNum] = [sha |-> a.headSha, latestCR |-> a.latestCR]]]
        ELSE same

\* An iteration that goes on without the date of the head commit.
EvaluatePrWithoutHeadDate(o, ntf, prNum, a) ==
    LET same == [out |-> o, notified |-> ntf]
        item == [number |-> prNum, headSha |-> a.headSha,
                 coderabbitLast |-> a.latestCR, unresolved |-> a.unresolved]
    IN  IF a.latestCR = 0 THEN same
        ELSE IF a.headSha = 0 THEN same
        ELSE IF a.unresolved = 0 - 1 THEN same
        ELSE IF a.unresolved > 0
        THEN [out |-> [o EXCEPT !.actionable = Append(@, item)], notified |-> ntf]
        ELSE same

\* An iteration that goes on to the readiness test after an actionable PR.
EvaluatePrNoContinue(o, ntf, prNum, a) ==
    LET same == [out |-> o, notified |-> ntf]
        item == [number |-> prNum, headSha |-> a.headSha,
                 coderabbitLast |-> a.latestCR, unresolved |-> a.unresolved]
        lastNotified == ntf[prNum]
        o2 == IF a.unresolved > 0 THEN [o EXCEPT !.actionable = Append(@, item)] ELSE o
    IN  IF a.latestCR = 0 THEN same
        ELSE IF a.headSha = 0 THEN same
        ELSE IF a.unresolved = 0 - 1 \/ a.headCommitIso = 0 THEN same
        ELSE IF a.headCommitIso > a.latestCR
                /\ ~(lastNotified.sha = a.headSha /\ lastNotified.latestCR = a.latestCR)
        THEN [out |-> [o2 EXCEPT !.ready = Append(@, [number |-> prNum, headSha |-> a.headSha,
                                                      coderabbitLast |-> a.latestCR])],
              notified |-> [ntf EXCEPT ![prNum] = [sha |-> a.headSha, latestCR |-> a.latestCR]]]
        ELSE [out |-> o2, notified |-> ntf]

\* One iteration of the per-PR loop for PR prNum, where a holds the answers
\* of its sub-queries (0 / -1: the query failed or returned nothing).
EvaluatePr(o, ntf, prNum, a) ==
    LET same == [out |-> o, notified |-> ntf]
        item == [number |-> prNum, headSha |-> a.headSha,
                 coderabbitLast |-> a.latestCR, unresolved |-> a.unresolved]
        lastNotified == ntf[prNum]
    IN  IF a.latestCR = 0 THEN same
        ELSE IF a.headSha = 0 THEN same
        ELSE IF a.unresolved = 0 - 1 \/ a.headCommitIso = 0 THEN same
        ELSE IF a.unresolved > 0
        THEN [out |-> [o EXCEPT !.actionable = Append(@, item)], notified |-> ntf]
        ELSE IF a.headCommitIso > a.latestCR
                /\ ~(lastNotified.sha = a.headSha /\ lastNotified.latestCR = a.latestCR)
        THEN [out |-> [o EXCEPT !.ready = Append(@, [number |-> prNum, headSha |-> a.headSha,
                                                     coderabbitLast |-> a.latestCR])],
              notified |-> [ntf EXCEPT ![prNum] = [sha |-> a.headSha, latestCR |-> a.latestCR]]]
        ELSE same

\* ------------------------------------------------- environment inputs
SweepIssues == {[number |-> n, checked |-> c] : n \in Issues, c \in BOOLEAN}

\* Results of the open-labeled-issue search: each issue at most once, listed
\* by number.
Sweeps ==
    {<<>>} \cup {<<x>> : x \in SweepIssues}
           \cup {p \in {<<x, y>> : x \in SweepIssues, y \in SweepIssues} :
                    p[1].number < p[2].number}

\* The events of evs for which the event loop asks hasOpenPRForIssue.
Asked(evs) ==
    {evs[i].id : i \in {j \in 1..Len(evs) :
        IsMatched(evs[j]) /\ evs[j].checked /\ CanActOnAction(evs[j].action)}}

\* The issues whose open PRs the cycle can ask for: those of the asking
\* events and, when the sweep runs, those the sweep finds checked.
Looked(evs, sweep, sweeps) ==
    {evs[i].number : i \in {j \in 1..Len(evs) : evs[j].id \in Asked(evs)}}
        \cup (IF sweeps
              THEN {sweep[i].number : i \in {j \in 1..Len(sweep) : sweep[j].checked}}
              ELSE {})

\* What the repository looks like during one issue cycle: prOpen are the
\* issues with an open "Fixes #n" PR, sweep the open labeled issues, sweepOk
\* whether the issue search answers, evMiss / swMiss the open-PR lookups that
\* fail (by event id in the event loop, by issue number in the sweep loop).
\* A cycle that returns before its queries (asks = FALSE) has no failures,
\* and prOpen leaves out the issues nothing is asked about.
IssueWorlds(evs, asks) ==
    UNION {UNION {{[prOpen |-> p, sweepOk |-> os[1], sweep |-> os[2], evMiss |-> m[1],
                    swMiss |-> m[2], open |-> <<>>, answers |-> <<>>, fetched |-> TRUE,
                    listed |-> FALSE] :
                      m \in (SUBSET {evs[i].id : i \in {j \in 1..Len(evs) :
                                         evs[j].id \in Asked(evs) /\ evs[j].number \in p}})
                            \X (IF asks /\ os[1]
                                THEN SUBSET (p \cap {os[2][i].number :
                                                i \in {j \in 1..Len(os[2]) : os[2][j].checked}})
                                ELSE {{}})} :
                  p \in SUBSET Looked(evs, os[2], asks /\ os[1])} :
           os \in (IF asks THEN BOOLEAN ELSE {TRUE}) \X Sweeps}

\* Answers of the sub-queries of one PR; a failed or empty answer ends the
\* iteration, so the later queries are not made.
PrAnswers ==
    {a \in [latestCR : 0..2, headSha : 0..2, unresolved : (0 - 1)..1, headCommitIso : 0..3] :
        /\ a.latestCR = 0 => a.headSha = 0
        /\ a.headSha = 0 => (a.unresolved = 0 - 1 /\ a.headCommitIso = 0)}

\* One answer for each way an iteration of the per-PR loop can end: no bot
\* activity, unresolved threads, head commit newer than the bot, and not newer.
PrAnswersOfEachKind ==
    {a \in PrAnswers :
        \/ a.latestCR = 0
        \/ (a.latestCR = 1 /\ a.headSha = 1 /\ a.unresolved = 1 /\ a.headCommitIso = 1)
        \/ (a.latestCR = 1 /\ a.headSha = 1 /\ a.unresolved = 0 /\ a.headCommitIso \in {1, 2})}

\* Answers for the readiness decision: each sub-query failing in turn,
\* unresolved threads, three pairs (headSha, latestCR) that qualify as ready
\* (the second differs from the first in the commit, the third in the bot
\* activity), and a head commit as old as, and older than, the bot activity.
Answer(latestCR, headSha, unresolved, headCommitIso) ==
    [latestCR |-> latestCR, headSha |-> headSha, unresolved |-> unresolved,
     headCommitIso |-> headCommitIso]

PrAnswersForReady ==
    PrAnswers \cap
    { Answer(0, 0, 0 - 1, 0), Answer(1, 0, 0 - 1, 0), Answer(1, 1, 0 - 1, 2),
      Answer(1, 1, 1, 0), Answer(1, 1, 1, 2),
      Answer(1, 1, 0, 2), Answer(1, 2, 0, 2), Answer(2, 1, 0, 3),
      Answer(1, 1, 0, 1), Answer(2, 1, 0, 1) }

\* Review threads as the GraphQL query returns them: bot says whether one of
\* the thread's comment authors is the review bot.
Thread(isResolved, isOutdated, bot) ==
    [isResolved |-> isResolved, isOutdated |-> isOutdated, bot |-> bot]

\* Most pages the thread listing of a PR has.
MaxPages == 6

ThreadPageKinds ==
    { <<>>,
      <<Thread(FALSE, FALSE, TRUE)>>,
      <<Thread(TRUE, FALSE, TRUE), Thread(FALSE, FALSE, FALSE)>>,
      <<Thread(FALSE, TRUE, TRUE), Thread(FALSE, FALSE, TRUE), Thread(FALSE, FALSE, TRUE)>> }

\* The listings: the page after cursor k is pages[k + 1], and it has a next
\* page when it is not the last.
ThreadListings == UNION {[1..n -> ThreadPageKinds] : n \in 1..MaxPages}

OpenLists == {<<>>, <<1>>, <<2>>, <<1, 2>>, <<2, 1>>}

\* What the child process reports: code ?? 1, and whether a signal ended it;
\* error is the catch branch of the PR job (the checkout threw).
RunResults ==
    {[exitCode |-> 0, signal |-> FALSE, error |-> FALSE],
     [exitCode |-> 1, signal |-> FALSE, error |-> FALSE],
     [exitCode |-> 1, signal |-> TRUE,  error |-> FALSE]}

CheckoutError == [exitCode |-> 1, signal |-> FALSE, error |-> TRUE]

\* The agent exits 0 or exits 1.
ExitResults == {r \in RunResults : ~r.signal}

\* -------------------------------------------------------------- history
\* polled: a poll has completed; moved: the feed changed since the last poll;
\* unchanged: the poll of the running cycle fetched the feed the poll before
\* it fetched; firstLen: the events that existed at the first poll; clean: no
\* poll after the first took the first-run or the gap branch; delivered[i]:
\* in how many polls event i was among the new events (counted up to 2, and
\* followed only while clean); reported: for each PR the first
\* <<PR, headSha, latestCR>> that a cycle put in its ready list; again: the
\* first of them that a later cycle put there once more.
NoHist ==
    [polled |-> FALSE, unchanged |-> FALSE, moved |-> FALSE, firstLen |-> 0,
     clean |-> TRUE, delivered |-> [i \in 1..MaxEvents |-> 0],
     reported |-> {}, again |-> {}]

Ids(evs) == [i \in 1..Len(evs) |-> evs[i].id]

\* The history after a poll that took the branch c when pub events existed.
HistAfter(h, c, pub) ==
    LET clean == h.clean /\ (~h.polled \/ c.status \notin {"FIRST_RUN", "GAP"})
    IN  [polled |-> TRUE,
         unchanged |-> h.polled /\ ~h.moved,
         moved |-> FALSE,
         firstLen |-> IF ~clean THEN 0 ELSE IF h.polled THEN h.firstLen ELSE pub,
         clean |-> clean,
         delivered |-> [i \in 1..MaxEvents |->
                          IF ~clean THEN 0
                          ELSE IF i \in Range(Ids(c.newOnes)) /\ h.delivered[i] < 2
                          THEN h.delivered[i] + 1 ELSE h.delivered[i]],
         reported |-> h.reported,
         again |-> h.again]

\* The history after the per-PR loop evaluated prNum with the answers a and
\* did (isReady) or did not push it to out.ready.
HistReady(h, prNum, a, isReady) ==
    LET triple == <<prNum, a.headSha, a.latestCR>>
    IN  IF ~isReady \/ h.again # {} THEN h
        ELSE IF triple \in h.reported THEN [h EXCEPT !.again = {triple}]
        ELSE IF \E t \in h.reported : t[1] = prNum THEN h
        ELSE [h EXCEPT !.reported = @ \cup {triple}]

\* -------------------------------------------------------------- actions
Init ==
    /\ feed = <<>>
    /\ published = 0
    /\ job \in {"issue", "pr"}
    /\ pc = "idle"
    /\ state = AbsentState
    /\ lastEventId = 0
    /\ events = <<>>
    /\ newOnes = <<>>
    /\ cand = <<>>
    /\ notified = NoNotified
    /\ out = EmptyOut
    /\ todo = 1
    /\ world = NoWorld
    /\ exitCode = 0 - 1
    /\ proc = NoProc
    /\ threads = NoThreads
    /\ hist = NoHist

\* The repository publishes an event; the window keeps the newest MaxWindow.
Publish ==
    /\ pc = "idle"
    /\ published < MaxEvents
    /\ \E k \in EventKinds(job) :
         feed' = Take(<<MkEvent(published + 1, k)>> \o feed, MaxWindow)
    /\ published' = published + 1
    /\ hist' = [hist EXCEPT !.moved = TRUE]
    /\ UNCHANGED <<job, proc, threads, pc, state, lastEventId, events, newOnes, cand, notified, out, todo, world,
                   exitCode>>

\* The repository publishes an event of a type neither job looks at.
PublishOther ==
    /\ pc = "idle"
    /\ published < MaxEvents
    /\ feed' = Take(<<MkEvent(published + 1, OtherKind)>> \o feed, MaxWindow)
    /\ published' = published + 1
    /\ hist' = [hist EXCEPT !.moved = TRUE]
    /\ UNCHANGED <<job, proc, threads, pc, state, lastEventId, events, newOnes, cand, notified, out,
                   todo, world, exitCode>>

\* The events of a repository with one checked, labeled issue and one pull
\* request that fails a check and gets a review.
FewIssueKinds ==
    {OtherKind, Kind("IssuesEvent", "labeled", 1, TRUE, TRUE, FALSE, 0, 0, "", "")}

FewPrKinds ==
    {OtherKind,
     Kind("CheckRunEvent", "completed", 0, FALSE, FALSE, FALSE, 0, 1, "completed", "failure"),
     Kind("PullRequestReviewEvent", "created", 0, FALSE, FALSE, FALSE, 1, 0, "", "")}

FewKinds(j) == IF j = "issue" THEN FewIssueKinds ELSE FewPrKinds

\* Such a repository publishes an event.
PublishFew ==
    /\ pc = "idle"
    /\ published < MaxEvents
    /\ \E k \in FewKinds(job) :
         feed' = Take(<<MkEvent(published + 1, k)>> \o feed, MaxWindow)
    /\ published' = published + 1
    /\ hist' = [hist EXCEPT !.moved = TRUE]
    /\ UNCHANGED <<job, proc, threads, pc, state, lastEventId, events, newOnes, cand, notified, out,
                   todo, world, exitCode>>

\* A check run, a check suite or a deployment status with the given outcome.
CheckKind(type, checkPr, status, conclusion) ==
    Kind(type, "", 0, FALSE, FALSE, FALSE, 0, checkPr, status, conclusion)

DeploymentKind(deployState) ==
    [Kind("DeploymentStatusEvent", "", 0, FALSE, FALSE, FALSE, 0, 0, "", "")
        EXCEPT !.deployState = deployState]

\* The outcomes of the checks and deployments of a pull request.
CheckKinds ==
    { CheckKind("CheckRunEvent", 1, "completed", "failure"),
      CheckKind("CheckRunEvent", 2, "completed", "cancelled"),
      CheckKind("CheckRunEvent", 1, "completed", "success"),
      CheckKind("CheckRunEvent", 1, "in_progress", ""),
      CheckKind("CheckSuiteEvent", 2, "completed", "timed_out"),
      CheckKind("CheckSuiteEvent", 1, "completed", "action_required"),
      CheckKind("CheckSuiteEvent", 0, "completed", "startup_failure"),
      CheckKind("CheckSuiteEvent", 2, "completed", "success"),
      CheckKind("CheckSuiteEvent", 1, "queued", ""),
      DeploymentKind("failure"),
      DeploymentKind("error"),
      DeploymentKind("success"),
      DeploymentKind("pending") }

\* A check or a deployment of the repository reports its outcome.
PublishCheck ==
    /\ pc = "idle"
    /\ published < MaxEvents
    /\ \E k \in CheckKinds :
         feed' = Take(<<MkEvent(published + 1, k)>> \o feed, MaxWindow)
    /\ published' = published + 1
    /\ hist' = [hist EXCEPT !.moved = TRUE]
    /\ UNCHANGED <<job, proc, threads, pc, state, lastEventId, events, newOnes, cand, notified, out,
                   todo, world, exitCode>>

\* The oldest event of the feed leaves it (the platform's retention).
Expire ==
    /\ pc = "idle"
    /\ feed # <<>>
    /\ feed' = SubSeq(feed, 1, Len(feed) - 1)
    /\ hist' = [hist EXCEPT !.moved = TRUE]
    /\ UNCHANGED <<published, job, proc, threads, pc, state, lastEventId, events, newOnes, cand, notified, out, todo,
                   world, exitCode>>

\* collectActionableEvents of the issue job, from readState to its return.
IssuePoll ==
    /\ job = "issue"
    /\ pc = "idle"
    /\ LET c == IssueCursor(readState(state).lastEventId, feed)
       IN  /\ lastEventId' = readState(state).lastEventId
           /\ events' = feed
           /\ newOnes' = c.newOnes
           /\ state' = IF c.persist THEN writeState(c.cursor, c.reset) ELSE state
           /\ hist' = HistAfter(hist, c, published)
           /\ \E w \in IssueWorlds(c.newOnes, c.status = "OK") :
                /\ world' = w
                /\ out' = IF c.status = "OK"
                          THEN [EmptyOut EXCEPT !.newestEventId = NewestEventId(feed),
                                                !.events = Matched(c.newOnes),
                                                !.actionable = FilteredActionable(c.newOnes, w)]
                          ELSE [EmptyOut EXCEPT !.newestEventId = NewestEventId(feed),
                                                !.initialized = (c.status = "FIRST_RUN"),
                                                !.reset = c.reset]
    /\ pc' = "codex"
    /\ todo' = 1
    /\ exitCode' = 0 - 1
    /\ UNCHANGED <<feed, published, job, proc, threads, cand, notified>>

\* A loop that moves on to the next item without running the agent.
IssueRunCodexSkips(results) ==
    /\ job = "issue"
    /\ pc = "codex"
    /\ todo <= Len(out.actionable)
    /\ todo' = todo + 1
    /\ UNCHANGED <<feed, published, job, proc, threads, pc, state, lastEventId, events, newOnes, cand,
                   notified, out, world, exitCode, hist>>

\* One iteration of the loop over result.actionable: buildCodexPrompt,
\* await runCodex, push the run.
IssueRunCodex(results) ==
    /\ job = "issue"
    /\ pc = "codex"
    /\ todo <= Len(out.actionable)
    /\ \E r \in results :
         out' = [out EXCEPT !.codexRuns =
                   Append(@, [number |-> out.actionable[todo].number, exitCode |-> r.exitCode,
                              signal |-> r.signal, error |-> r.error])]
    /\ todo' = todo + 1
    /\ UNCHANGED <<feed, published, job, proc, threads, pc, state, lastEventId, events, newOnes, cand, notified, world,
                   exitCode, hist>>

\* An exit whose code looks at the last run only.
ProcessExitLastRun ==
    /\ pc = "codex"
    /\ todo > Len(out.actionable)
    /\ exitCode' = IF out.codexRuns # <<>> /\ out.codexRuns[Len(out.codexRuns)].exitCode # 0
                   THEN 1 ELSE 0
    /\ pc' = "idle"
    /\ lastEventId' = 0
    /\ events' = <<>>
    /\ newOnes' = <<>>
    /\ cand' = <<>>
    /\ notified' = NoNotified
    /\ out' = EmptyOut
    /\ todo' = 1
    /\ world' = NoWorld
    /\ proc' = NoProc
    /\ hist' = [hist EXCEPT !.unchanged = FALSE]
    /\ UNCHANGED <<feed, published, job, threads, state>>

\* The summary is printed and the process ends: 1 if a run failed, else 0.
\* Nothing of the process is left but the state file and its exit code.
ProcessExit ==
    /\ pc = "codex"
    /\ todo > Len(out.actionable)
    /\ exitCode' = IF \E i \in 1..Len(out.codexRuns) : out.codexRuns[i].exitCode # 0
                   THEN 1 ELSE 0
    /\ pc' = "idle"
    /\ lastEventId' = 0
    /\ events' = <<>>
    /\ newOnes' = <<>>
    /\ cand' = <<>>
    /\ notified' = NoNotified
    /\ out' = EmptyOut
    /\ todo' = 1
    /\ world' = NoWorld
    /\ proc' = NoProc
    /\ hist' = [hist EXCEPT !.unchanged = FALSE]
    /\ UNCHANGED <<feed, published, job, threads, state>>

\* main of the PR job from readJson to the first write of the found branch
\* and the scan of the new events (urgent lines, prsToEvaluate).
PrPoll ==
    /\ job = "pr"
    /\ pc = "idle"
    /\ LET c == PrCursor(readJson(state).lastEventId, feed)
       IN  /\ lastEventId' = readJson(state).lastEventId
           /\ events' = feed
           /\ newOnes' = c.newOnes
           /\ notified' = readJson(state).notified
           /\ state' = IF c.persist
                       THEN writeJsonAtomic(c.cursor, readJson(state).notified, c.reset)
                       ELSE state
           /\ hist' = HistAfter(hist, c, published)
           /\ out' = [EmptyOut EXCEPT !.newestEventId = NewestEventId(feed),
                                      !.initialized = (c.status = "FIRST_RUN"),
                                      !.reset = c.reset,
                                      !.urgent = Urgent(c.newOnes)]
           /\ IF c.status = "FOUND"
              THEN \E open \in OpenLists :
                     /\ (Len(PrsFromEvents(<<>>, c.newOnes)) # 0 => open = <<>>)
                     /\ world' = [NoWorld EXCEPT
                                    !.open = open, !.fetched = TRUE,
                                    !.listed = (Len(PrsFromEvents(<<>>, c.newOnes)) = 0)]
                     /\ cand' = PrsToEvaluate(c.newOnes, open)
                     /\ pc' = "evaluate"
              ELSE /\ world' = FetchedWorld
                   /\ cand' = <<>>
                   /\ pc' = "codex"
    /\ todo' = 1
    /\ exitCode' = 0 - 1
    /\ UNCHANGED <<feed, published, job, proc, threads>>

\* One iteration of the loop over prsToEvaluate.
PrEvaluate(answers) ==
    /\ job = "pr"
    /\ pc = "evaluate"
    /\ todo <= Len(cand)
    /\ \E a \in answers :
         LET r == EvaluatePr(out, notified, cand[todo], a)
         IN  /\ out' = r.out
             /\ notified' = r.notified
             /\ world' = [world EXCEPT !.answers = Append(@, a)]
             /\ hist' = HistReady(hist, cand[todo], a, Len(r.out.ready) > Len(out.ready))
    /\ todo' = todo + 1
    /\ UNCHANGED <<feed, published, job, proc, threads, pc, state, lastEventId, events, newOnes, cand,
                   exitCode>>

\* The write after the loop done with the cursor the cycle started from.
PrPersistOldCursor ==
    /\ job = "pr"
    /\ pc = "evaluate"
    /\ todo > Len(cand)
    /\ state' = writeJsonAtomic(lastEventId, notified, FALSE)
    /\ pc' = "codex"
    /\ todo' = 1
    /\ world' = [world EXCEPT !.answers = <<>>]
    /\ UNCHANGED <<feed, published, job, proc, threads, lastEventId, events, newOnes, cand, notified, out,
                   exitCode, hist>>

\* The write after the loop: cursor and notified map together.  The answers
\* of the loop's queries are of no use after it.
PrPersist ==
    /\ job = "pr"
    /\ pc = "evaluate"
    /\ todo > Len(cand)
    /\ state' = writeJsonAtomic(out.newestEventId, notified, FALSE)
    /\ pc' = "codex"
    /\ todo' = 1
    /\ world' = [world EXCEPT !.answers = <<>>]
    /\ UNCHANGED <<feed, published, job, proc, threads, lastEventId, events, newOnes, cand, notified, out,
                   exitCode, hist>>

\* One iteration of the loop over out.actionable: prepareRepoForPR, runCodex,
\* the catch branch, and the removal of the checkout.
PrRunCodex(results) ==
    /\ job = "pr"
    /\ pc = "codex"
    /\ todo <= Len(out.actionable)
    /\ \E r \in results :
         out' = [out EXCEPT !.codexRuns =
                   Append(@, [number |-> out.actionable[todo].number, exitCode |-> r.exitCode,
                              signal |-> r.signal, error |-> r.error])]
    /\ todo' = todo + 1
    /\ UNCHANGED <<feed, published, job, proc, threads, pc, state, lastEventId, events, newOnes, cand, notified, world,
                   exitCode, hist>>

\* ------------------------------------------------ the feed fetch fails
\* A cycle that loses its state file before the fetch.
FetchFailsStateLost ==
    /\ pc = "idle"
    /\ lastEventId' = Load(job, state).lastEventId
    /\ notified' = Load(job, state).notified
    /\ state' = AbsentState
    /\ world' = FetchedWorld
    /\ pc' = "failed"
    /\ exitCode' = 0 - 1
    /\ UNCHANGED <<feed, published, job, proc, threads, events, newOnes, cand, out, todo, hist>>

\* The state file is read, then ghGet / ghGetJson of EVENTS_URL throws (the
\* response is not ok): the rejection reaches the catch handler of the job.
FetchFails ==
    /\ pc = "idle"
    /\ lastEventId' = Load(job, state).lastEventId
    /\ notified' = Load(job, state).notified
    /\ world' = FetchedWorld
    /\ pc' = "failed"
    /\ exitCode' = 0 - 1
    /\ UNCHANGED <<feed, published, job, proc, threads, state, events, newOnes, cand, out, todo,
                   hist>>

\* The catch handler: console.error and process.exit(1).
ProcessAbort ==
    /\ pc = "failed"
    /\ exitCode' = 1
    /\ pc' = "idle"
    /\ lastEventId' = 0
    /\ notified' = NoNotified
    /\ world' = NoWorld
    /\ UNCHANGED <<feed, published, job, proc, threads, state, events, newOnes, cand, out, todo,
                   hist>>

\* ---------------------------------------- the agent loops, step by step
\* What a finished item leaves in codexRuns.
PushRun(o, number, r) ==
    [o EXCEPT !.codexRuns = Append(@, [number |-> number, exitCode |-> r.exitCode,
                                       signal |-> r.signal, error |-> r.error])]

\* A loop that starts the agents of all remaining items without awaiting.
IssueSpawnAll ==
    /\ job = "issue"
    /\ pc = "codex"
    /\ proc.step = "top"
    /\ todo <= Len(out.actionable)
    /\ proc' = [proc EXCEPT !.running = @ \cup todo..Len(out.actionable),
                            !.started = Append(@, todo),
                            !.step = "await"]
    /\ UNCHANGED <<feed, published, job, threads, pc, state, lastEventId, events, newOnes, cand,
                   notified, out, todo, world, exitCode, hist>>

\* runCodex of the issue job up to spawn('codex', ...): the child is alive.
IssueSpawn ==
    /\ job = "issue"
    /\ pc = "codex"
    /\ proc.step = "top"
    /\ todo <= Len(out.actionable)
    /\ proc' = [proc EXCEPT !.running = @ \cup {todo},
                            !.started = Append(@, todo),
                            !.step = "await"]
    /\ UNCHANGED <<feed, published, job, threads, pc, state, lastEventId, events, newOnes, cand,
                   notified, out, todo, world, exitCode, hist>>

\* The child's exit event resolves the awaited promise; the run is pushed
\* and the loop goes to its next item.
IssueAgentExit(results) ==
    /\ job = "issue"
    /\ pc = "codex"
    /\ proc.step = "await"
    /\ todo \in proc.running
    /\ \E r \in results : out' = PushRun(out, out.actionable[todo].number, r)
    /\ proc' = [proc EXCEPT !.running = @ \ {todo}, !.step = "top"]
    /\ todo' = todo + 1
    /\ UNCHANGED <<feed, published, job, threads, pc, state, lastEventId, events, newOnes, cand,
                   notified, world, exitCode, hist>>

\* prepareRepoForPR: mkdtempSync makes the directory, then clone, fetch and
\* checkout run.  If one of them fails the function throws: main's repoDir
\* stays null, the catch branch pushes the error run, and the finally block
\* finds nothing to remove.
PrPrepare ==
    /\ job = "pr"
    /\ pc = "codex"
    /\ proc.step = "top"
    /\ todo <= Len(out.actionable)
    /\ \E ok \in BOOLEAN :
         IF ok
         THEN /\ proc' = [proc EXCEPT !.dirs = @ \cup {todo}, !.repoDir = todo, !.step = "spawn"]
              /\ UNCHANGED <<out, todo>>
         ELSE /\ proc' = [proc EXCEPT !.dirs = @ \cup {todo}, !.repoDir = 0, !.step = "top"]
              /\ out' = PushRun(out, out.actionable[todo].number, CheckoutError)
              /\ todo' = todo + 1
    /\ UNCHANGED <<feed, published, job, threads, pc, state, lastEventId, events, newOnes, cand,
                   notified, world, exitCode, hist>>

\* runCodex of the PR job up to spawn('codex', ...) in the checkout.
PrSpawn ==
    /\ job = "pr"
    /\ pc = "codex"
    /\ proc.step = "spawn"
    /\ proc' = [proc EXCEPT !.running = @ \cup {todo},
                            !.started = Append(@, todo),
                            !.step = "await"]
    /\ UNCHANGED <<feed, published, job, threads, pc, state, lastEventId, events, newOnes, cand,
                   notified, out, todo, world, exitCode, hist>>

\* The child's exit event: the run is pushed, and the finally block removes
\* the checkout (fs.rmSync(repoDir)) before the loop goes on.
PrAgentExit(results) ==
    /\ job = "pr"
    /\ pc = "codex"
    /\ proc.step = "await"
    /\ todo \in proc.running
    /\ \E r \in results : out' = PushRun(out, out.actionable[todo].number, r)
    /\ proc' = [proc EXCEPT !.running = @ \ {todo},
                            !.dirs = IF proc.repoDir # 0 THEN @ \ {proc.repoDir} ELSE @,
                            !.repoDir = 0,
                            !.step = "top"]
    /\ todo' = todo + 1
    /\ UNCHANGED <<feed, published, job, threads, pc, state, lastEventId, events, newOnes, cand,
                   notified, world, exitCode, hist>>

Next ==
    \/ Publish
    \/ Expire
    \/ IssuePoll
    \/ IssueRunCodex(ExitResults)
    \/ PrPoll
    \/ PrEvaluate(PrAnswersOfEachKind)
    \/ PrPersist
    \/ PrRunCodex(ExitResults)
    \/ ProcessExit
    \/ FetchFails
    \/ ProcessAbort

Spec == Init /\ [][Next]_vars

\* ------------------------------ getCodeRabbitUnresolvedThreadCount
\* for (let i = 0; i < 5; i += 1)
MaxPageRequests == 5

\* The inner loop: the unresolved, non-outdated threads of a page with a bot
\* comment.
UnresolvedOnPage(nodes) ==
    Cardinality({k \in 1..Len(nodes) :
        ~nodes[k].isResolved /\ ~nodes[k].isOutdated /\ nodes[k].bot})

\* One iteration of the loop: request the page after the cursor, count its
\* threads, then break (and return) or move the cursor.
ThreadsPage ==
    /\ ~threads.returned
    /\ threads.i < MaxPageRequests
    /\ LET page == threads.pages[threads.after + 1]
           hasNextPage == threads.after + 1 < Len(threads.pages)
       IN  threads' = [threads EXCEPT !.unresolved = @ + UnresolvedOnPage(page),
                                      !.after = IF hasNextPage THEN @ + 1 ELSE @,
                                      !.i = IF hasNextPage THEN @ + 1 ELSE @,
                                      !.returned = ~hasNextPage]
    /\ UNCHANGED <<feed, published, job, proc, pc, state, lastEventId, events, newOnes, cand,
                   notified, out, todo, world, exitCode, hist>>

\* The loop condition fails: return unresolved.
ThreadsReturn ==
    /\ ~threads.returned
    /\ threads.i >= MaxPageRequests
    /\ threads' = [threads EXCEPT !.returned = TRUE]
    /\ UNCHANGED <<feed, published, job, proc, pc, state, lastEventId, events, newOnes, cand,
                   notified, out, todo, world, exitCode, hist>>

\* One call of the function for each listing.
InitThreads ==
    /\ feed = <<>>
    /\ published = 0
    /\ job = "pr"
    /\ pc = "evaluate"
    /\ state = AbsentState
    /\ lastEventId = 0
    /\ events = <<>>
    /\ newOnes = <<>>
    /\ cand = <<>>
    /\ notified = NoNotified
    /\ out = EmptyOut
    /\ todo = 1
    /\ world = NoWorld
    /\ exitCode = 0 - 1
    /\ proc = NoProc
    /\ threads \in {[pages |-> p, i |-> 0, after |-> 0, unresolved |-> 0, returned |-> FALSE] :
                      p \in ThreadListings}
    /\ hist = NoHist

NextThreads == ThreadsPage \/ ThreadsReturn

SpecThreads == InitThreads /\ [][NextThreads]_vars

\* The same jobs with the agent loops taken one step at a time and with every
\* outcome of an agent run and of the checkout, over a feed that names no
\* issue and no PR and has lost no event yet: the items that reach the loops
\* are those of the sweep and of the open PRs.
NextAgents ==
    \/ PublishOther
    \/ IssuePoll
    \/ IssueSpawn
    \/ IssueAgentExit(RunResults)
    \/ PrPoll
    \/ PrEvaluate(PrAnswersOfEachKind)
    \/ PrPersist
    \/ PrPrepare
    \/ PrSpawn
    \/ PrAgentExit(RunResults)
    \/ ProcessExit
    \/ FetchFails
    \/ ProcessAbort

SpecAgents == Init /\ [][NextAgents]_vars

\* The PR job over a feed that names no PR and has lost no event yet, so that
\* the PRs evaluated are the open ones, with the answers of its sub-queries
\* that make a difference to the readiness decision.
InitReady == Init /\ job = "pr"

NextReady ==
    \/ PublishOther
    \/ PrPoll
    \/ PrEvaluate(PrAnswersForReady)
    \/ PrPersist
    \/ PrRunCodex(ExitResults)
    \/ ProcessExit

SpecReady == InitReady /\ [][NextReady]_vars

\* ------------------------------------------- faults around the cycle
\* The bytes of a state file that was written stop being a JSON document.
Corrupt ==
    /\ pc = "idle"
    /\ state.lastEventId # 0
    /\ ~state.torn
    /\ state' = [state EXCEPT !.torn = TRUE]
    /\ UNCHANGED <<feed, published, job, pc, lastEventId, events, newOnes, cand, notified, out,
                   todo, world, exitCode, proc, threads, hist>>

\* A process started without GH_TOKEN.  The issue job tests the variable
\* when the module is loaded, before anything else; the PR job has read the
\* state file when ghGetJson calls getToken, which throws before fetch.
TokenMissing ==
    /\ pc = "idle"
    /\ pc' = "notoken"
    /\ lastEventId' = IF job = "issue" THEN 0 ELSE readJson(state).lastEventId
    /\ notified' = IF job = "issue" THEN NoNotified ELSE readJson(state).notified
    /\ exitCode' = 0 - 1
    /\ UNCHANGED <<feed, published, job, state, events, newOnes, cand, out, todo, world, proc,
                   threads, hist>>

\* An exit that reports success.
TokenAbortClean ==
    /\ pc = "notoken"
    /\ exitCode' = 0
    /\ pc' = "idle"
    /\ lastEventId' = 0
    /\ notified' = NoNotified
    /\ UNCHANGED <<feed, published, job, state, events, newOnes, cand, out, todo, world, proc,
                   threads, hist>>

\* console.error and process.exit: 2 at the top of the issue job's module,
\* 1 from the catch handler of the PR job's main.
TokenAbort ==
    /\ pc = "notoken"
    /\ exitCode' = IF job = "issue" THEN 2 ELSE 1
    /\ pc' = "idle"
    /\ lastEventId' = 0
    /\ notified' = NoNotified
    /\ UNCHANGED <<feed, published, job, state, events, newOnes, cand, out, todo, world, proc,
                   threads, hist>>

NextCorrupt ==
    \/ PublishFew
    \/ Corrupt
    \/ IssuePoll
    \/ IssueRunCodex(ExitResults)
    \/ PrPoll
    \/ PrEvaluate(PrAnswersOfEachKind)
    \/ PrPersist
    \/ PrRunCodex(ExitResults)
    \/ ProcessExit
    \/ TokenMissing
    \/ TokenAbort

SpecCorrupt == Init /\ [][NextCorrupt]_vars

\* ---------------------------------------------- the process is killed
\* The process is gone: its locals with it, and no summary was printed.
Killed ==
    /\ pc' = "idle"
    /\ exitCode' = 137
    /\ lastEventId' = 0
    /\ events' = <<>>
    /\ newOnes' = <<>>
    /\ cand' = <<>>
    /\ notified' = NoNotified
    /\ out' = EmptyOut
    /\ todo' = 1
    /\ world' = NoWorld
    /\ proc' = NoProc
    /\ hist' = [hist EXCEPT !.unchanged = FALSE]
    /\ UNCHANGED <<feed, published, job, threads>>

\* The issue job is killed inside writeState: writeFileSync opens the state
\* file itself for writing and truncates it, so the file holds a prefix of
\* the new document, which parses only if it is the whole of it.
IssueWriteKilled ==
    /\ job = "issue"
    /\ pc = "idle"
    /\ LET c == IssueCursor(readState(state).lastEventId, feed)
       IN  /\ c.persist
           /\ \E whole \in BOOLEAN :
                state' = [writeState(c.cursor, c.reset) EXCEPT !.torn = ~whole]
    /\ Killed

\* The PR job is killed inside writeJsonAtomic of the poll: writeFileSync
\* fills the .tmp file and renameSync puts it in the place of the state
\* file, which holds the old document until then and the new one after.
PrWriteKilled ==
    /\ job = "pr"
    /\ pc = "idle"
    /\ LET c == PrCursor(readJson(state).lastEventId, feed)
       IN  /\ c.persist
           /\ \E renamed \in BOOLEAN :
                state' = IF renamed
                         THEN writeJsonAtomic(c.cursor, readJson(state).notified, c.reset)
                         ELSE state
    /\ Killed

\* The PR job is killed inside writeJsonAtomic after the loop over the PRs.
PrPersistKilled ==
    /\ job = "pr"
    /\ pc = "evaluate"
    /\ todo > Len(cand)
    /\ \E renamed \in BOOLEAN :
         state' = IF renamed THEN writeJsonAtomic(out.newestEventId, notified, FALSE) ELSE state
    /\ Killed

\* The process is killed between two steps of its loops.
Kill ==
    /\ pc \in {"evaluate", "codex"}
    /\ state' = state
    /\ Killed

NextKill ==
    \/ PublishFew
    \/ IssuePoll
    \/ IssueWriteKilled
    \/ IssueRunCodex(ExitResults)
    \/ PrPoll
    \/ PrWriteKilled
    \/ PrEvaluate(PrAnswersOfEachKind)
    \/ PrPersist
    \/ PrPersistKilled
    \/ PrRunCodex(ExitResults)
    \/ ProcessExit
    \/ Kill

SpecKill == Init /\ [][NextKill]_vars

\* The PR job over a feed of check and deployment outcomes, with PRs the
\* review bot was not active on.
PrAnswersNoActivity == PrAnswers \cap {Answer(0, 0, 0 - 1, 0)}

NextChecks ==
    \/ PublishCheck
    \/ PrPoll
    \/ PrEvaluate(PrAnswersNoActivity)
    \/ PrPersist
    \/ ProcessExit

SpecChecks == InitReady /\ [][NextChecks]_vars

\* The PR job over a feed that loses its old events, with answers that make
\* a PR ready (for two different commits), actionable, or neither.
PrAnswersForFrame ==
    PrAnswers \cap
    { Answer(0, 0, 0 - 1, 0), Answer(1, 1, 1, 2), Answer(1, 1, 0, 2), Answer(1, 2, 0, 2) }

NextFrame ==
    \/ PublishOther
    \/ Expire
    \/ PrPoll
    \/ PrEvaluate(PrAnswersForFrame)
    \/ PrPersist
    \/ PrRunCodex(ExitResults)
    \/ ProcessExit

SpecFrame == InitReady /\ [][NextFrame]_vars

\* ------------------------------------------ any feed, any stored cursor
\* Whatever the feed endpoint may return: up to MaxWindow events whose ids
\* are in no order and need not differ.
AnyFeeds ==
    {<<>>} \cup UNION {[1..n -> {MkEvent(i, OtherKind) : i \in 1..MaxEvents}] : n \in 1..MaxWindow}

\* A job starts on such a feed with any cursor, or none, in its state file.
InitTrackers ==
    /\ feed \in AnyFeeds
    /\ published = MaxEvents
    /\ job \in {"issue", "pr"}
    /\ pc = "idle"
    /\ state \in {writeState(c, FALSE) : c \in 0..MaxEvents}
    /\ lastEventId = 0
    /\ events = <<>>
    /\ newOnes = <<>>
    /\ cand = <<>>
    /\ notified = NoNotified
    /\ out = EmptyOut
    /\ todo = 1
    /\ world = NoWorld
    /\ exitCode = 0 - 1
    /\ proc = NoProc
    /\ threads = NoThreads
    /\ hist = NoHist

NextTrackers ==
    \/ IssuePoll
    \/ IssueRunCodex(ExitResults)
    \/ PrPoll
    \/ PrEvaluate(PrAnswersOfEachKind)
    \/ PrPersist
    \/ PrRunCodex(ExitResults)
    \/ ProcessExit

SpecTrackers == InitTrackers /\ [][NextTrackers]_vars

TypeOK ==
    /\ published \in 0..MaxEvents
    /\ Len(feed) <= MaxWindow
    /\ pc \in {"idle", "evaluate", "codex", "failed", "notoken"}

\* --------------------------------------------------------------- claims
InCycle == pc # "idle"

\* The cycle's loops are done; the summary is what the process prints.
CycleDone == pc = "codex" /\ todo > Len(out.actionable)

CursorInFeed == lastEventId \in Range(Ids(events))

\* Number of fetched events that precede the cursor's event in the feed.
Ahead == (CHOOSE i \in 1..Len(events) : events[i].id = lastEventId) - 1

NothingToDo ==
    /\ newOnes = <<>>
    /\ cand = <<>>
    /\ out.events = <<>>
    /\ out.urgent = <<>>
    /\ out.actionable = <<>>
    /\ out.ready = <<>>
    /\ out.codexRuns = <<>>

IsTrigger(ev) == IsMatched(ev) /\ ev.checked /\ CanActOnAction(ev.action)

\* C1: with no stored cursor and a non-empty feed, a cycle of either job
\* treats no event as new, builds no matched / urgent / actionable / ready
\* item, runs no agent, and the state file holds the id of the first
\* (newest) fetched event.
FirstRunSkipsHistory ==
    (InCycle /\ lastEventId = 0 /\ events # <<>>)
        => (NothingToDo /\ state.lastEventId = events[1].id)

FirstRunOverTriggers ==
    /\ job = "issue"
    /\ CycleDone
    /\ lastEventId = 0
    /\ Len(events) >= 2
    /\ \E i \in 1..Len(events) : IsTrigger(events[i])
    /\ \E i \in 1..Len(world.sweep) : world.sweep[i].checked

\* C2: a cycle whose poll fetched the same feed as the poll before it, with
\* the cursor that cycle left, has no new events, reports neither a first
\* run nor a gap, and leaves the stored cursor id as it found it.
SecondPollIsNoChange ==
    (InCycle /\ hist.unchanged)
        => /\ newOnes = <<>>
           /\ ~out.initialized
           /\ ~out.reset
           /\ state.lastEventId = lastEventId

SecondPollReached ==
    /\ job = "pr"
    /\ CycleDone
    /\ hist.unchanged
    /\ Len(events) >= 2
    /\ lastEventId = events[1].id

\* C3 as stated: whenever the stored cursor is non-null and is the id of no
\* fetched event, the cycle reports a gap, has nothing to do and stores the
\* newest event id.
GapOutcome ==
    /\ out.reset
    /\ NothingToDo
    /\ state.lastEventId = NewestEventId(events)
    /\ state.lastEventId # 0

GapWheneverCursorMissing ==
    (InCycle /\ lastEventId # 0 /\ ~CursorInFeed) => GapOutcome

\* C3 amended: the same for a non-empty feed; a cycle that fetches an empty
\* feed reports no gap and writes nothing.
GapWhenCursorMissingFromFeed ==
    (InCycle /\ lastEventId # 0 /\ ~CursorInFeed /\ events # <<>>) => GapOutcome

GapOverTriggers ==
    /\ job = "issue"
    /\ CycleDone
    /\ lastEventId # 0
    /\ ~CursorInFeed
    /\ \E i \in 1..Len(events) : IsTrigger(events[i])
    /\ out.reset

\* C4: when the stored cursor is the id of the fetched event at position
\* k > 0 (k events precede it), the new events are exactly those k events in
\* reverse feed order, oldest first, and the matched items keep that order.
NewEventsAreThoseAheadOfCursor ==
    (InCycle /\ lastEventId # 0 /\ CursorInFeed /\ Ahead > 0)
        => /\ Len(newOnes) = Ahead
           /\ \A j \in 1..Ahead : newOnes[j] = events[Ahead + 1 - j]
           /\ \A i, j \in 1..Len(out.events) : i < j => out.events[i].id < out.events[j].id

TwoEventsAhead ==
    /\ InCycle
    /\ lastEventId # 0
    /\ CursorInFeed
    /\ Ahead = 2
    /\ newOnes[1].id < newOnes[2].id

\* C5: as long as no poll after the first took the first-run or the gap
\* branch, every event published after the first poll that the stored cursor
\* has reached was among the new events of exactly one poll, and no other
\* event was among the new events of any poll.
EachEventDeliveredOnce ==
    (hist.polled /\ hist.clean)
        => \A i \in 1..MaxEvents :
              hist.delivered[i] = IF hist.firstLen < i /\ i <= state.lastEventId THEN 1 ELSE 0

DeliveredOverTwoPolls ==
    /\ InCycle
    /\ hist.clean
    /\ lastEventId = 2
    /\ hist.delivered[2] = 1
    /\ hist.delivered[3] = 1

\* C6 as stated: the stored cursor never moves to an older event, and it is
\* non-null after every cycle that completes successfully.
CursorSetAfterEveryCycle ==
    [][/\ state'.lastEventId >= state.lastEventId
       /\ (pc = "codex" /\ pc' = "idle" /\ exitCode' = 0) => state'.lastEventId # 0]_vars

\* C6 amended: the stored cursor never moves to an older event, and it is
\* non-null after every cycle that completes on a non-empty feed; a cycle
\* that fetches an empty feed leaves the cursor as it was, null included.
CursorSetAfterNonEmptyCycle ==
    [][/\ state'.lastEventId >= state.lastEventId
       /\ (pc = "codex" /\ pc' = "idle" /\ events # <<>>) => state'.lastEventId # 0
       /\ (pc = "idle" /\ pc' # "idle" /\ feed = <<>>) => state'.lastEventId = state.lastEventId]_vars

CursorAdvanced ==
    /\ pc = "idle"
    /\ exitCode = 0
    /\ hist.clean
    /\ state.lastEventId > hist.firstLen
    /\ hist.firstLen > 0

\* C7 as stated: no item of the issue job's actionable set, and so no agent
\* run, is for an issue that has an open "Fixes #n" pull request.
LookupFailedFor(item) ==
    IF item.action = "sweep" THEN item.number \in world.swMiss ELSE item.id \in world.evMiss

RunsAreForActionable ==
    \A i \in 1..Len(out.codexRuns) : out.codexRuns[i].number = out.actionable[i].number

NoActionableIssueHasOpenPR ==
    (job = "issue" /\ InCycle)
        => /\ \A i \in 1..Len(out.actionable) : out.actionable[i].number \notin world.prOpen
           /\ RunsAreForActionable

\* C7 amended: an issue with an open "Fixes #n" pull request is in the
\* actionable set only through an item whose own open-PR lookup failed (a
\* failed lookup counts as "no PR"); otherwise it is in neither the
\* actionable set nor the agent runs, be it found by an event or the sweep.
OpenPRSuppressesUnlessLookupFailed ==
    (job = "issue" /\ InCycle)
        => /\ \A i \in 1..Len(out.actionable) :
                 out.actionable[i].number \in world.prOpen => LookupFailedFor(out.actionable[i])
           /\ RunsAreForActionable

SuppressedByOpenPR ==
    /\ job = "issue"
    /\ CycleDone
    /\ world.sweepOk
    /\ world.evMiss = {}
    /\ world.swMiss = {}
    /\ \E n \in world.prOpen :
         /\ \E i \in 1..Len(newOnes) : IsTrigger(newOnes[i]) /\ newOnes[i].number = n
         /\ \E i \in 1..Len(world.sweep) : world.sweep[i].number = n /\ world.sweep[i].checked
         /\ ~MapHas(out.actionable, n)
    /\ Len(out.codexRuns) = 1

\* C8: a new labeled issue event whose action is not one of opened, edited,
\* labeled, reopened is in the matched list, and no actionable item and no
\* agent run stems from it: its issue is actionable in that cycle only by a
\* new event with one of the four actions or by the sweep finding it checked.
TriggerActions == {"opened", "edited", "labeled", "reopened"}

OpenCheckedFree(x) == x.checked /\ x.number \notin world.prOpen

AdmittedByEvent(ev) ==
    IsTrigger(ev) /\ ~(ev.number \in world.prOpen /\ ev.id \notin world.evMiss)

ActionableIsDedupedEventFirst ==
    (job = "issue" /\ InCycle)
        => /\ \A i, j \in 1..Len(out.actionable) :
                 i # j => out.actionable[i].number # out.actionable[j].number
           /\ \A i \in 1..Len(newOnes) :
                 AdmittedByEvent(newOnes[i])
                 => \E k \in 1..Len(out.actionable) :
                       /\ out.actionable[k].number = newOnes[i].number
                       /\ out.actionable[k].action # "sweep"
                       /\ \E j \in 1..Len(newOnes) :
                             newOnes[j].id = out.actionable[k].id /\ AdmittedByEvent(newOnes[j])

EventAndSweepSameIssue ==
    /\ job = "issue"
    /\ CycleDone
    /\ world.sweepOk
    /\ \E i \in 1..Len(newOnes), x \in Range(world.sweep) :
         /\ AdmittedByEvent(newOnes[i])
         /\ x.number = newOnes[i].number
         /\ x.checked
    /\ Len(out.actionable) = 2

\* C11: at the end of an issue cycle, each issue for which a new event with
\* a triggering action arrived while the issue is labeled, has its gate
\* checked and has no open pull request is in the actionable set exactly
\* once, and exactly one agent run is recorded for it in codexRuns.
Positions(s, n) == {k \in 1..Len(s) : s[k].number = n}

TriggeringEventRunsOneAgent ==
    (job = "issue" /\ CycleDone)
        => \A i \in 1..Len(newOnes) :
              (IsTrigger(newOnes[i]) /\ newOnes[i].number \notin world.prOpen)
              => /\ Cardinality(Positions(out.actionable, newOnes[i].number)) = 1
                 /\ Cardinality(Positions(out.codexRuns, newOnes[i].number)) = 1

OneLabeledEventOneRun ==
    /\ job = "issue"
    /\ CycleDone
    /\ Len(newOnes) = 1
    /\ newOnes[1].action = "labeled"
    /\ IsTrigger(newOnes[1])
    /\ world.prOpen = {}
    /\ world.sweep = <<>>
    /\ Len(out.actionable) = 1
    /\ out.actionable[1].number = newOnes[1].number
    /\ Len(out.codexRuns) = 1

\* C12 as stated: in both jobs at most one agent subprocess is alive at any
\* time, an agent starts only when every earlier item has reported its run,
\* and by the end of the cycle exactly one agent was started per actionable
\* item.
Started(k) == Cardinality({j \in 1..Len(proc.started) : proc.started[j] = k})

OneAgentAtATime ==
    /\ Cardinality(proc.running) <= 1
    /\ pc # "codex" => proc.running = {}
    /\ \A k \in proc.running : k = todo /\ Len(out.codexRuns) = k - 1
    /\ \A k \in 1..Len(out.codexRuns) : out.codexRuns[k].number = out.actionable[k].number

OneAgentPerItem ==
    /\ OneAgentAtATime
    /\ CycleDone => \A k \in 1..Len(out.actionable) : Started(k) = 1

\* C12 amended: at most one agent subprocess is alive at any time and an
\* agent starts only when every earlier item has reported its run; each
\* actionable item has exactly one recorded run and exactly one agent start,
\* except that an item of the PR job whose checkout failed has its error run
\* and no agent start.
OneAgentPerCheckedOutItem ==
    /\ OneAgentAtATime
    /\ pc = "codex"
         => \A k \in 1..Len(out.actionable) :
               Started(k) = IF \/ k \in proc.running
                               \/ (k <= Len(out.codexRuns) /\ ~out.codexRuns[k].error)
                            THEN 1 ELSE 0
    /\ CycleDone => Len(out.codexRuns) = Len(out.actionable)

SecondAgentAfterFirstExit ==
    /\ pc = "codex"
    /\ proc.running = {2}
    /\ Len(out.codexRuns) = 1
    /\ out.codexRuns[1].exitCode # 0
    /\ proc.started = <<1, 2>>

\* C13: over the cycles of the PR job no <<PR, headSha, latestCR>> is put in
\* the ready list of more than one cycle, also when the PR's pair changed to
\* another value in between (followed for the first pair reported per PR).
ReadyPairReportedOnce == hist.again = {}

\* C14: in an iteration of the per-PR loop whose answers qualify the PR as
\* ready (bot activity, head known, no unresolved thread, head commit newer
\* than the bot activity), the PR is pushed to the ready list exactly when
\* the record read for it differs from (headSha, latestCR) in the commit or
\* in the activity, or is absent; the record then is that pair, no other
\* PR's record changes, and the write after the loop persists the map.
Qualifies(a) ==
    a.latestCR # 0 /\ a.headSha # 0 /\ a.unresolved = 0 /\ a.headCommitIso > a.latestCR

PairOf(a) == [sha |-> a.headSha, latestCR |-> a.latestCR]

NotifyIffPairDiffers ==
    [][/\ (pc = "evaluate" /\ todo' = todo + 1)
            => LET n == cand[todo]
                   a == world'.answers[Len(world'.answers)]
                   pushed == out'.ready # out.ready
               IN  /\ Qualifies(a) =>
                        /\ pushed <=> (notified[n].sha # a.headSha \/ notified[n].latestCR # a.latestCR)
                        /\ pushed => /\ Len(out'.ready) = Len(out.ready) + 1
                                     /\ out'.ready[Len(out'.ready)].number = n
                                     /\ out'.ready[Len(out'.ready)].headSha = a.headSha
                        /\ notified'[n] = PairOf(a)
                   /\ ~Qualifies(a) => (~pushed /\ notified' = notified)
                   /\ \A m \in PRs \ {n} : notified'[m] = notified[m]
       /\ (pc = "evaluate" /\ pc' = "codex") => state'.notified = notified]_vars

NewActivitySameCommit ==
    /\ pc = "evaluate"
    /\ todo > 1
    /\ LET n == cand[todo - 1]
           a == world.answers[todo - 1]
       IN  /\ Qualifies(a)
           /\ state.notified[n].sha = a.headSha
           /\ state.notified[n].latestCR # a.latestCR
           /\ notified[n] = PairOf(a)
           /\ \E i \in 1..Len(out.ready) : out.ready[i].number = n

\* C15: during the per-PR loop and at its end, a PR is in the ready list of
\* the cycle (which does not change after the loop) only if the answers for
\* it are zero unresolved bot threads and a head commit time strictly newer
\* than the latest bot activity; a PR whose head commit time equals or
\* precedes the latest bot activity is in no ready list.
ReadyNumbers == {out.ready[i].number : i \in 1..Len(out.ready)}

ReadyOnlyWhenHeadNewer ==
    (job = "pr" /\ pc = "evaluate")
        => /\ \A i \in 1..Len(out.ready) :
                 \E k \in 1..Len(world.answers) :
                    /\ cand[k] = out.ready[i].number
                    /\ world.answers[k].unresolved = 0
                    /\ world.answers[k].latestCR # 0
                    /\ world.answers[k].headCommitIso > world.answers[k].latestCR
           /\ \A k \in 1..Len(world.answers) :
                 world.answers[k].headCommitIso <= world.answers[k].latestCR
                 => cand[k] \notin ReadyNumbers

OneReadyOneNotNewer ==
    /\ job = "pr"
    /\ pc = "evaluate"
    /\ Len(world.answers) = 2
    /\ Len(out.ready) = 1
    /\ \E k \in 1..2 :
         /\ cand[k] \notin ReadyNumbers
         /\ world.answers[k].unresolved = 0
         /\ world.answers[k].headCommitIso = world.answers[k].latestCR
         /\ notified[cand[k]] = NoRecord

\* C16 as stated: an evaluated PR is in the actionable list exactly when the
\* thread query counted at least one unresolved bot thread and the PR has
\* bot activity; a PR without bot activity is in neither list.
ActionableNumbers == {out.actionable[i].number : i \in 1..Len(out.actionable)}

NoActivityNoList ==
    \A k \in 1..Len(world.answers) :
       world.answers[k].latestCR = 0
       => (cand[k] \notin ActionableNumbers /\ cand[k] \notin ReadyNumbers)

ActionableIffUnresolvedThreads ==
    (job = "pr" /\ pc = "evaluate")
        => /\ \A k \in 1..Len(world.answers) :
                 cand[k] \in ActionableNumbers
                 <=> (world.answers[k].unresolved > 0 /\ world.answers[k].latestCR # 0)
           /\ NoActivityNoList

\* C16 amended: an evaluated PR is in the actionable list exactly when it has
\* bot activity, the thread query counted at least one unresolved bot thread
\* and the queries for its head and its head commit answered; a PR one of
\* whose queries failed is skipped, and a PR without bot activity is in
\* neither list.
ActionableIffUnresolvedAndAnswered ==
    (job = "pr" /\ pc = "evaluate")
        => /\ \A k \in 1..Len(world.answers) :
                 cand[k] \in ActionableNumbers
                 <=> /\ world.answers[k].latestCR # 0
                     /\ world.answers[k].headSha # 0
                     /\ world.answers[k].unresolved > 0
                     /\ world.answers[k].headCommitIso # 0
           /\ NoActivityNoList

OneActionableOneSkipped ==
    /\ job = "pr"
    /\ pc = "evaluate"
    /\ Len(world.answers) = 2
    /\ Len(out.actionable) = 1
    /\ \E k \in 1..2 :
         /\ cand[k] \notin ActionableNumbers
         /\ world.answers[k].unresolved > 0
         /\ world.answers[k].headCommitIso = 0

\* C17: whatever the number of pages of a PR's review threads, the count
\* getCodeRabbitUnresolvedThreadCount returns is the number of unresolved,
\* non-outdated bot threads summed over every page of the listing, and it
\* returns only when the last page was requested.
RECURSIVE UnresolvedInAll(_)
UnresolvedInAll(pages) ==
    IF pages = <<>> THEN 0
    ELSE UnresolvedOnPage(Head(pages)) + UnresolvedInAll(Tail(pages))

ThreadCountCoversEveryPage ==
    threads.returned
        => /\ threads.unresolved = UnresolvedInAll(threads.pages)
           /\ threads.after + 1 = Len(threads.pages)

\* C18: in the PR job, when the processing of an actionable item has ended
\* (the loop is back at its head), no temporary checkout directory made for
\* an item exists any more, whether the checkout failed, the agent succeeded
\* or the agent failed.
CheckoutRemovedAfterEveryItem ==
    (job = "pr" /\ pc = "codex" /\ proc.step = "top") => proc.dirs = {}

\* C19: a failed run (nonzero exit, signal, or failed checkout) is recorded
\* for its item and the later items are processed all the same: when the
\* process exits at the end of a cycle every actionable item has its run, in
\* order, and the exit code is nonzero exactly when some recorded run failed
\* and zero exactly when every recorded run has exit code 0.
Failed(r) == r.exitCode # 0 \/ r.signal \/ r.error

FailedRunsRecordedAndExitCode ==
    [][(pc = "codex" /\ pc' = "idle")
          => /\ Len(out.codexRuns) = Len(out.actionable)
             /\ \A k \in 1..Len(out.codexRuns) :
                   out.codexRuns[k].number = out.actionable[k].number
             /\ exitCode' # 0 <=> \E k \in 1..Len(out.codexRuns) : Failed(out.codexRuns[k])
             /\ exitCode' = 0 <=> \A k \in 1..Len(out.codexRuns) : out.codexRuns[k].exitCode = 0]_vars

RunAfterFailedRun ==
    /\ CycleDone
    /\ Len(out.codexRuns) = 2
    /\ out.codexRuns[1].exitCode # 0
    /\ out.codexRuns[1].signal
    /\ out.codexRuns[2].exitCode = 0
    /\ proc.started = <<1, 2>>

\* C20: when the fetch of the event feed fails, the state file stays what
\* the cycle read (cursor and notified map), no agent was or is started, and
\* the process ends with a nonzero exit code leaving the file untouched.
FetchFailureLeavesState ==
    [][/\ pc' = "failed"
            => /\ state' = state
               /\ state'.lastEventId = lastEventId'
               /\ state'.notified = notified'
               /\ out'.codexRuns = <<>>
               /\ proc'.started = <<>>
               /\ proc'.running = {}
       /\ pc = "failed" => (pc' = "idle" /\ exitCode' # 0)]_vars

FetchFailedWithNewEvents ==
    /\ job = "pr"
    /\ pc = "failed"
    /\ state.lastEventId # 0
    /\ state.notified[1] # NoRecord
    /\ feed # <<>>
    /\ feed[1].id # state.lastEventId

\* ------------------------------------------------------------------ C21
\* The event of the feed that would start work in a cycle that saw it as new.
StartsWork(ev) ==
    IF job = "issue" THEN IsTrigger(ev)
    ELSE Urgent(<<ev>>) # <<>> \/ PrsFromEvents(<<>>, <<ev>>) # <<>>

\* The state file of a first run over the feed f.
FirstRunState(f) ==
    IF job = "issue" THEN writeState(NewestEventId(f), FALSE)
    ELSE writeJsonAtomic(NewestEventId(f), NoNotified, FALSE)

\* C21: a cycle that finds a state file it cannot parse does not crash and
\* does what a first run does: no event is new, nothing is urgent,
\* actionable or ready, no agent runs, the newest event id of a non-empty
\* feed is persisted in a well-formed file, and the process exits with 0.
CorruptStateIsFirstRun ==
    [][/\ (pc = "idle" /\ state.torn /\ pc' \notin {"idle", "notoken"})
            => /\ pc' = "codex"
               /\ lastEventId' = 0
               /\ newOnes' = <<>>
               /\ cand' = <<>>
               /\ out'.events = <<>> /\ out'.urgent = <<>>
               /\ out'.actionable = <<>> /\ out'.ready = <<>>
               /\ out'.initialized = (feed # <<>>)
               /\ ~out'.reset
               /\ state' = IF feed = <<>> THEN state ELSE FirstRunState(feed)
       /\ (pc = "codex" /\ lastEventId = 0 /\ pc' # "codex")
            => /\ pc' = "idle"
               /\ out.codexRuns = <<>>
               /\ exitCode' = 0]_vars

\* C21 witness: a cycle over the feed its predecessor polled took the
\* first-run branch (the file was corrupted in between), with an event in
\* the feed that would have started work, and wrote the newest id.
CorruptStateOverTriggers ==
    /\ pc = "codex"
    /\ hist.unchanged
    /\ out.initialized
    /\ \E i \in 1..Len(events) : StartsWork(events[i])
    /\ state = FirstRunState(events)

\* ------------------------------------------------------------------ C22
\* C22: a process started without GH_TOKEN ends with a nonzero exit code (2
\* in the issue job, 1 in the PR job) without a request to the platform,
\* without a write of the state file and without an agent.
MissingTokenAborts ==
    [][/\ pc' = "notoken"
            => /\ state' = state
               /\ ~world'.fetched
               /\ out' = EmptyOut
               /\ proc' = NoProc
       /\ pc = "notoken"
            => /\ pc' = "idle"
               /\ exitCode' = (IF job = "issue" THEN 2 ELSE 1)
               /\ state' = state
               /\ ~world'.fetched
               /\ out' = EmptyOut
               /\ proc' = NoProc]_vars

\* C22 witness: the process without a token is at its exit, with a cursor
\* in the state file and an event ahead of it that would have started work.
MissingTokenWithWorkAhead ==
    /\ pc = "notoken"
    /\ state.lastEventId # 0
    /\ feed # <<>>
    /\ feed[1].id > state.lastEventId
    /\ StartsWork(feed[1])

\* ------------------------------------------------------------------ C23
\* C23: in both jobs the state file is written all-or-nothing: whenever the
\* process is killed, the file is a complete document (the one before the
\* write or the new one).
StateFileIsWhole == ~state.torn

\* ------------------------------------------------------------------ C24
\* The new events of the running cycle whose work is not done: in the issue
\* job those of the actionable items no agent has completed for, in the PR
\* job those with an urgent line (the lines are printed when the cycle ends).
Pending ==
    {i \in 1..Len(newOnes) :
        IF job = "issue"
        THEN \E k \in todo..Len(out.actionable) : out.actionable[k].id = newOnes[i].id
        ELSE Urgent(<<newOnes[i]>>) # <<>>}

\* The ids of the events that a cycle started on the file and the feed f
\* treats as new.
NewForNextCycle(file, f) ==
    Range(Ids(IF job = "issue" THEN IssueCursor(readState(file).lastEventId, f).newOnes
              ELSE PrCursor(readJson(file).lastEventId, f).newOnes))

\* C24: when a cycle is killed after its poll, every new event whose work
\* the cycle had not done is new again for the next cycle.
KilledCycleLosesNoTrigger ==
    [][(pc \in {"evaluate", "codex"} /\ pc' = "idle" /\ exitCode' = 137)
         => \A i \in Pending : newOnes[i].id \in NewForNextCycle(state', feed')]_vars

\* ------------------------------------------------------------------ C25
\* C25: the PR job does not write the new cursor before the notifications
\* of the cycle are computed: while the loop over the PRs runs, the file
\* holds the cursor the cycle read.
CursorWrittenWithNotifications ==
    (job = "pr" /\ pc = "evaluate") => state.lastEventId = lastEventId

\* ------------------------------------------------------------------ C26
CheckTypes == {"CheckRunEvent", "CheckSuiteEvent", "DeploymentStatusEvent"}

FailureConclusions ==
    {"failure", "cancelled", "timed_out", "action_required", "startup_failure"}

\* A deployment status read as a check: its state is its conclusion when it
\* is terminal, and its status while it is not.
TerminalDeployStates == {"success", "failure", "error", "inactive"}

ConclusionOf(ev) ==
    IF ev.type # "DeploymentStatusEvent" THEN ev.conclusion
    ELSE IF ev.deployState \in TerminalDeployStates THEN ev.deployState ELSE ""

StatusOf(ev) ==
    IF ev.type # "DeploymentStatusEvent" THEN ev.status
    ELSE IF ev.deployState \in TerminalDeployStates THEN "completed" ELSE ev.deployState

\* The rule as stated for all three types of event.
FailedOrStalled(ev) ==
    /\ ev.type \in CheckTypes
    /\ \/ ConclusionOf(ev) \in FailureConclusions
       \/ (ConclusionOf(ev) = "" /\ StatusOf(ev) # "completed")

Succeeded(ev) == ev.type \in CheckTypes /\ ConclusionOf(ev) = "success"

\* The rule for check runs and suites, and the states of a deployment.
CheckFailedOrStalled(ev) ==
    IF ev.type = "DeploymentStatusEvent"
    THEN ev.deployState \in {"error", "failure", "inactive"}
    ELSE FailedOrStalled(ev)

SucceededOrDeploying(ev) ==
    IF ev.type = "DeploymentStatusEvent"
    THEN ev.deployState \notin {"error", "failure", "inactive"}
    ELSE Succeeded(ev)

\* The urgent list of the cycle has a line for each new event that must
\* have one, none for an event that must have none, and no other lines.
\* (must, mustNot: the positions of those events among the new ones.)
UrgentWithin(must, mustNot) ==
    (job = "pr" /\ pc \in {"evaluate", "codex"})
        => /\ Cardinality(must) <= Len(out.urgent)
           /\ Len(out.urgent) <= Cardinality({i \in 1..Len(newOnes) :
                                      newOnes[i].type \in CheckTypes /\ i \notin mustNot})
           /\ \A i \in must :
                \E k \in 1..Len(out.urgent) :
                         /\ out.urgent[k].pr = newOnes[i].checkPr
                         /\ newOnes[i].type = "CheckRunEvent" => out.urgent[k].what = "CHECK"
                         /\ newOnes[i].conclusion = "failure"
                                => out.urgent[k].conclusion = "FAILURE"

\* C26 as stated: a new check-run, check-suite or deployment-status event
\* has exactly one urgent line when its conclusion is a failure or when it
\* has no conclusion and is not completed, and none when it succeeded.
UrgentForAllCheckTypes ==
    UrgentWithin({i \in 1..Len(newOnes) : FailedOrStalled(newOnes[i])},
                 {i \in 1..Len(newOnes) : Succeeded(newOnes[i])})

\* C26: a new check-run or check-suite event has exactly one urgent line
\* when its conclusion is failure, cancelled, timed_out, action_required or
\* startup_failure or when it has no conclusion and a status other than
\* completed, and none when it succeeded; a new deployment-status event has
\* exactly one when its state is error, failure or inactive and none
\* otherwise; the line of a failed check run names its PR and FAILURE.
UrgentForChecksAndFailedDeployments ==
    UrgentWithin({i \in 1..Len(newOnes) : CheckFailedOrStalled(newOnes[i])},
                 {i \in 1..Len(newOnes) : SucceededOrDeploying(newOnes[i])})

\* C26 witness: a cycle with two new events, a failed check run of PR 1 and
\* a pending deployment, has the one line of the check run.
FailedCheckAndPendingDeployment ==
    /\ job = "pr"
    /\ pc = "codex"
    /\ Len(newOnes) = 2
    /\ \E i \in 1..2 : /\ newOnes[i].type = "CheckRunEvent"
                        /\ newOnes[i].conclusion = "failure"
                        /\ newOnes[i].checkPr = 1
    /\ \E i \in 1..2 : newOnes[i].deployState = "pending"
    /\ Len(out.urgent) = 1
    /\ out.urgent[1].pr = 1
    /\ out.urgent[1].what = "CHECK"
    /\ out.urgent[1].conclusion = "FAILURE"

\* ------------------------------------------------------------------ C27
\* The PRs that the new events of the given types refer to.
ReferencedBy(types) ==
    {prNumFromPayload(newOnes[i]) :
        i \in {j \in 1..Len(newOnes) :
                 /\ prNumFromPayload(newOnes[j]) # 0
                 /\ \/ newOnes[j].type \in types
                    \/ (newOnes[j].type = "IssueCommentEvent" /\ newOnes[j].issuePr)}}

ReviewTypes == {"PullRequestReviewEvent", "PullRequestReviewCommentEvent"}

\* The set evaluated holds the PRs referred to, and the list of the open
\* PRs is asked for exactly when there are none.
CandidatesAre(referenced) ==
    (job = "pr" /\ pc = "evaluate")
        => /\ referenced \subseteq Range(cand)
           /\ world.listed <=> referenced = {}
           /\ world.listed => Range(cand) = Range(world.open)
           /\ ~world.listed => Range(cand) = referenced

\* C27 as stated: every PR a new review, comment or check event refers to
\* is evaluated, and the fallback is used iff the new events refer to no PR.
CandidatesFromReviewAndCheckEvents == CandidatesAre(ReferencedBy(ReviewTypes \cup CheckTypes))

\* C27: every PR a new review or comment event refers to is evaluated, and
\* the fallback to the recently updated open PRs is used iff the new review
\* and comment events refer to no PR (check events add no candidate).
CandidatesFromReviewEvents == CandidatesAre(ReferencedBy(ReviewTypes))

\* C27 witness: the new events are a review of PR 1 and a failed check; the
\* cycle evaluates PR 1 and does not list the open PRs.
ReviewAndCheckAreNew ==
    /\ job = "pr"
    /\ pc = "evaluate"
    /\ \E i \in 1..Len(newOnes) : newOnes[i].type = "PullRequestReviewEvent"
    /\ \E i \in 1..Len(newOnes) : newOnes[i].type = "CheckRunEvent"
    /\ cand = <<1>>
    /\ ~world.listed

\* ------------------------------------------------------------------ C28
\* One of the sub-queries of the PR failed or returned nothing.
SubQueryFailed(a) ==
    a.latestCR = 0 \/ a.headSha = 0 \/ a.unresolved = 0 - 1 \/ a.headCommitIso = 0

\* C28: an iteration of the per-PR loop in which a sub-query failed leaves
\* the actionable list, the ready list and the notified map as they were and
\* goes on to the next candidate; the loop ends with every candidate
\* evaluated and the cycle writes its state.
FailSoftPerPr ==
    [][/\ (pc = "evaluate" /\ todo' = todo + 1)
            => LET a == world'.answers[Len(world'.answers)]
               IN  SubQueryFailed(a)
                     => /\ out'.actionable = out.actionable
                        /\ out'.ready = out.ready
                        /\ notified' = notified
                        /\ pc' = "evaluate"
       /\ (pc = "evaluate" /\ pc' = "codex")
            => /\ Len(world.answers) = Len(cand)
               /\ state' = writeJsonAtomic(out.newestEventId, notified, FALSE)]_vars

\* C28 witness: the head commit of the first of two candidates (which has
\* unresolved threads) could not be dated; the second one is actionable.
FirstFailedSecondActionable ==
    /\ pc = "evaluate"
    /\ Len(cand) = 2
    /\ Len(world.answers) = 2
    /\ world.answers[1].unresolved = 1
    /\ world.answers[1].headCommitIso = 0
    /\ ActionableNumbers = {cand[2]}
    /\ ReadyNumbers = {}
    /\ notified = state.notified

\* ------------------------------------------------------------------ C29
RunNumbers == {out.codexRuns[i].number : i \in 1..Len(out.codexRuns)}

\* C29: in a cycle of the PR job no PR is both actionable and ready; the
\* iteration for a PR with unresolved bot threads neither reports it ready
\* nor writes its record; agents run for actionable PRs only.
ActionableAndReadyDisjoint ==
    [][job = "pr"
         => /\ ActionableNumbers \cap ReadyNumbers = {}
            /\ RunNumbers \subseteq ActionableNumbers
            /\ (pc = "evaluate" /\ todo' = todo + 1)
                 => LET a == world'.answers[Len(world'.answers)]
                    IN  a.unresolved > 0
                          => /\ out'.ready = out.ready
                             /\ cand[todo] \notin {out'.ready[i].number : i \in 1..Len(out'.ready)}
                             /\ notified' = notified
            /\ (pc = "codex" /\ todo' = todo + 1)
                 => /\ Len(out'.codexRuns) = Len(out.codexRuns) + 1
                    /\ out'.codexRuns[Len(out'.codexRuns)].number \in ActionableNumbers]_vars

\* C29 witness: PR 1 has unresolved threads and a head commit newer than
\* the bot activity, PR 2 is ready; the agent ran for PR 1, and only the
\* record of PR 2 was written.
OneActionableOneReadyOneRun ==
    /\ job = "pr"
    /\ pc = "codex"
    /\ ActionableNumbers = {1}
    /\ ReadyNumbers = {2}
    /\ RunNumbers = {1}
    /\ todo = 2
    /\ state.notified[1] = NoRecord
    /\ state.notified[2] # NoRecord

\* ------------------------------------------------------------------ C30
\* C30: the poll of the PR job (first run, gap reset, cursor found) writes
\* the cursor with the records as they were; the record of a PR changes only
\* in the write after the loop, which carries the map of the cycle, and
\* only for a PR of the ready list; a record that exists is never removed.
NotifiedMapFrame ==
    [][job = "pr"
         => /\ (pc = "idle" /\ pc' # "idle")
                 => /\ state'.notified = state.notified
                    /\ (out'.initialized \/ out'.reset)
                          => /\ state'.lastEventId = NewestEventId(feed)
                             /\ pc' = "codex"
            /\ (pc = "evaluate" /\ pc' = "codex") => state'.notified = notified
            /\ \A n \in PRs :
                 /\ state'.notified[n] # state.notified[n]
                      => (pc = "evaluate" /\ pc' = "codex" /\ n \in ReadyNumbers)
                 /\ state.notified[n] # NoRecord => state'.notified[n] # NoRecord]_vars

\* C30 witness: a gap cycle wrote the newest id and the reset mark over a
\* state that holds the record of PR 1.
GapResetKeepsRecord ==
    /\ job = "pr"
    /\ pc = "codex"
    /\ out.reset
    /\ state.reset
    /\ state.lastEventId = NewestEventId(events)
    /\ state.notified[1] # NoRecord

\* ------------------------------------------------------------------ C31
\* What the cursor tracker of the other job computes from the cursor the
\* running cycle read and the feed it fetched.
OtherTracker ==
    IF job = "issue" THEN PrCursor(lastEventId, events) ELSE IssueCursor(lastEventId, events)

\* C31: on every feed and every stored cursor the two jobs compute the same
\* new events in the same order, take the same first-run and gap decisions
\* and leave the same cursor id in the state file: what the running cycle
\* of one job did is what the tracker of the other job computes.
TrackersAgree ==
    (pc \in {"evaluate", "codex"} /\ world.fetched)
        => /\ newOnes = OtherTracker.newOnes
           /\ out.initialized = (OtherTracker.status = "FIRST_RUN")
           /\ out.reset = (OtherTracker.status = "GAP")
           /\ out.reset = OtherTracker.reset
           /\ state.lastEventId = IF OtherTracker.persist THEN OtherTracker.cursor
                                   ELSE lastEventId

\* C31 witness: the stored id occurs twice in a feed of three events, behind
\* one newer event; the cycle has the one new event and stored its id.
CursorIdTwiceInFeed ==
    /\ pc \in {"evaluate", "codex"}
    /\ Len(events) = 3
    /\ events[1].id # lastEventId
    /\ events[2].id = lastEventId
    /\ events[3].id = lastEventId
    /\ newOnes = <<events[1]>>
    /\ state.lastEventId = events[1].id

====
